---- MODULE Spec2Model ----
(***************************************************************************)
(* Model of the two controllers of romea_controllers:                      *)
(*   ackermann_controller::AckermannController            (Variant A)      *)
(*   four_wheel_steering_controller::FourWheelSteeringController (B)       *)
(* One controller object is modelled; `variant' says which class it is.    *)
(*                                                                         *)
(* Numbers.  A double is modelled by an exact value in canonical form:     *)
(*   [k |-> "q",     n, d]  the rational n/d (d > 0, gcd(n,d) = 1)          *)
(*   [k |-> "q",     0, -1] -0.0                                            *)
(*   [k |-> "nan",   0, 1]  NaN                                             *)
(*   [k |-> "inf",   s, 1]  +inf (s = 1) or -inf (s = -1)                   *)
(*   [k |-> "ssqrt", n, d]  sign(n) * sqrt(|n|/d), |n|/d not a square       *)
(*   [k |-> "hatan", n, d]  atan(n/d) / 2, n # 0                            *)
(*   [k |-> "atan",  n, d]  atan(n/d), n # 0                                *)
(* Floating point rounding and the sign bit of a NaN are not modelled.     *)
(* Time is counted in ticks.                                               *)
(***************************************************************************)
EXTENDS Integers, Sequences, FiniteSets, TLC

(* ------------------------------ bounds ---------------------------------- *)
\* last clock value the model lets the clock reach
MaxTime == 2
\* number of ingestion callbacks the command source makes in one run
MaxIngest == 2

(* ------------------------------ numbers --------------------------------- *)
Abs(i) == IF i < 0 THEN -i ELSE i

RECURSIVE Gcd(_, _)
Gcd(a, b) == IF b = 0 THEN a ELSE Gcd(b, a % b)

NaN == [k |-> "nan", n |-> 0, d |-> 1]
\* +inf (s = 1) and -inf (s = -1)
Inf(s) == [k |-> "inf", n |-> s, d |-> 1]

Sign(i) == IF i < 0 THEN -1 ELSE IF i > 0 THEN 1 ELSE 0

\* the rational n/d, d # 0, in canonical form; 0 is +0.0
Rat(n, d) ==
  LET g == Gcd(Abs(n), Abs(d))
      s == IF d < 0 THEN -1 ELSE 1
  IN [k |-> "q", n |-> (s * n) \div g, d |-> (s * d) \div g]

Zero == Rat(0, 1)
\* -0.0
NegZero == [k |-> "q", n |-> 0, d |-> -1]
\* the zero of sign s
ZeroS(s) == IF s < 0 THEN NegZero ELSE Zero

\* n / d as the division of the doubles n and d gives it: for d = 0 the
\* infinity of n's sign, or NaN for 0 / 0, and -0.0 for 0 / d with d < 0
Q(n, d) ==
  IF d = 0 THEN IF n = 0 THEN NaN ELSE Inf(Sign(n))
  ELSE IF n = 0 THEN ZeroS(d)
  ELSE Rat(n, d)

Int2Q(i) == Rat(i, 1)

isnan(x) == x.k = "nan"
isinf(x) == x.k = "inf"
IsQ(x) == x.k = "q"
\* x == 0.0, which -0.0 satisfies as well
IsZero(x) == x.k = "q" /\ x.n = 0
\* the sign of a value that is not NaN (0 for both zeros): in every form it
\* is the sign of n
SignOf(x) == Sign(x.n)
\* the sign bit of a value that is not NaN, as -1 (set) or 1 (clear)
Sgn(x) == IF IsZero(x) THEN x.d ELSE Sign(x.n)
\* the positive denominator of a rational
Den(x) == Abs(x.d)

\* A result the forms above cannot name (the sum of a rational and a root,
\* say, or the sign bit of a NaN, which differs between targets).  It has no
\* value: TLC stops with an error when a behaviour needs it, so that no
\* verified property rests on a value the model made up.
Unrepresented(x) == CHOOSE v \in {} : v = x

\* arithmetic on doubles, with the sign of a zero result as IEEE 754 rounding
\* to nearest gives it
RAdd(x, y) ==
  IF isnan(x) \/ isnan(y) THEN NaN
  ELSE IF IsZero(x) /\ IsZero(y) THEN IF x = NegZero /\ y = NegZero THEN NegZero ELSE Zero
  ELSE IF IsQ(x) /\ IsQ(y) THEN Rat(x.n * Den(y) + y.n * Den(x), Den(x) * Den(y))
  ELSE IF isinf(x) /\ isinf(y) THEN IF x = y THEN x ELSE NaN
  ELSE IF isinf(x) THEN x
  ELSE IF isinf(y) THEN y
  ELSE IF IsZero(x) THEN y
  ELSE IF IsZero(y) THEN x
  ELSE Unrepresented(<<"RAdd", x, y>>)
RNeg(x) ==
  IF isnan(x) THEN NaN
  ELSE IF IsZero(x) THEN ZeroS(-x.d)
  ELSE [x EXCEPT !.n = -x.n]
RSub(x, y) == RAdd(x, RNeg(y))
RMul(x, y) ==
  IF isnan(x) \/ isnan(y) THEN NaN
  ELSE IF isinf(x) \/ isinf(y)
       THEN IF IsZero(x) \/ IsZero(y) THEN NaN ELSE Inf(Sgn(x) * Sgn(y))
  ELSE IF IsZero(x) \/ IsZero(y) THEN ZeroS(Sgn(x) * Sgn(y))
  ELSE IF IsQ(x) /\ IsQ(y) THEN Rat(x.n * y.n, x.d * y.d)
  ELSE Unrepresented(<<"RMul", x, y>>)
RDiv(x, y) ==
  IF isnan(x) \/ isnan(y) THEN NaN
  ELSE IF isinf(x) THEN IF isinf(y) THEN NaN ELSE Inf(Sgn(x) * Sgn(y))
  ELSE IF isinf(y) THEN ZeroS(Sgn(x) * Sgn(y))
  ELSE IF IsZero(y) THEN IF IsZero(x) THEN NaN ELSE Inf(Sgn(x) * Sgn(y))
  ELSE IF IsZero(x) THEN ZeroS(Sgn(x) * Sgn(y))
  ELSE IF IsQ(x) /\ IsQ(y) THEN Rat(x.n * y.d, x.d * y.n)
  ELSE Unrepresented(<<"RDiv", x, y>>)
\* comparisons are false as soon as an operand is NaN, as for doubles, and
\* the two zeros compare equal
RLt(x, y) ==
  IF isnan(x) \/ isnan(y) THEN FALSE
  ELSE IF IsQ(x) /\ IsQ(y) THEN x.n * Den(y) < y.n * Den(x)
  ELSE IF x = y THEN FALSE
  ELSE IF isinf(x) THEN x.n = -1
  ELSE IF isinf(y) THEN y.n = 1
  ELSE IF SignOf(x) # SignOf(y) THEN SignOf(x) < SignOf(y)
  ELSE Unrepresented(<<"RLt", x, y>>)
RGt(x, y) == RLt(y, x)
\* fabs(x): every form is odd in n
RAbs(x) ==
  IF isnan(x) THEN NaN
  ELSE IF IsZero(x) THEN Zero
  ELSE [x EXCEPT !.n = Abs(x.n)]
\* pow(x, 2)
RSquare(x) == RMul(x, x)

\* integer square root (largest r with r*r <= i)
RECURSIVE ISqrtFrom(_, _)
ISqrtFrom(i, r) == IF (r + 1) * (r + 1) > i THEN r ELSE ISqrtFrom(i, r + 1)
ISqrt(i) == ISqrtFrom(i, 0)
IsSquare(i) == ISqrt(i) * ISqrt(i) = i

\* sgn * sqrt(x) for sgn in {-1, 1}: a rational when x is the square of a
\* rational, the symbolic value otherwise; sqrt(+inf) is +inf, sqrt(-0.0) is
\* -0.0, and the root of a negative value is NaN
SignedSqrt(sgn, x) ==
  IF isnan(x) THEN NaN
  ELSE IF isinf(x) THEN IF x.n = 1 THEN Inf(sgn) ELSE NaN
  ELSE IF ~IsQ(x) THEN Unrepresented(<<"SignedSqrt", x>>)
  ELSE IF IsZero(x) THEN ZeroS(sgn * Sgn(x))
  ELSE IF x.n < 0 THEN NaN
  ELSE IF IsSquare(x.n) /\ IsSquare(x.d)
       THEN Rat(sgn * ISqrt(x.n), ISqrt(x.d))
       ELSE [k |-> "ssqrt", n |-> sgn * x.n, d |-> x.d]

\* copysign(1.0, x): the sign bit of x, also of a zero
copysign1(x) == IF isnan(x) THEN Unrepresented(<<"copysign", x>>) ELSE Sgn(x)

\* atan(x) / 2; atan(+-inf) / 2 is +-pi/4, which is atan(+-1)
HalfAtan(x) ==
  IF isnan(x) THEN NaN
  ELSE IF isinf(x) THEN [k |-> "atan", n |-> x.n, d |-> 1]
  ELSE IF ~IsQ(x) THEN Unrepresented(<<"HalfAtan", x>>)
  ELSE IF IsZero(x) THEN x
       ELSE [k |-> "hatan", n |-> x.n, d |-> x.d]

clamp(x, lo, hi) == IF RLt(x, lo) THEN lo ELSE IF RGt(x, hi) THEN hi ELSE x

\* (x + y) / 2.0 of two readings
Mean2(x, y) ==
  IF isnan(x) \/ isnan(y) THEN NaN
  ELSE IF x.k \in {"q", "inf"} /\ y.k \in {"q", "inf"} THEN RDiv(RAdd(x, y), Int2Q(2))
  ELSE IF x = y THEN x
  ELSE IF x = RNeg(y) THEN Zero
  ELSE IF IsZero(x) /\ y.k = "atan" THEN [y EXCEPT !.k = "hatan"]
  ELSE IF IsZero(y) /\ x.k = "atan" THEN [x EXCEPT !.k = "hatan"]
  ELSE RDiv(RAdd(x, y), Int2Q(2))

\* tan(x): of atan(r) it is r, of atan(r) / 2 it is (sqrt(1 + r^2) - 1) / r,
\* of a zero the zero, and of an infinity it is NaN
Tan(x) ==
  IF isnan(x) \/ isinf(x) THEN NaN
  ELSE IF x.k = "atan" THEN Rat(x.n, x.d)
  ELSE IF IsZero(x) THEN x
  ELSE IF x.k = "hatan" /\ IsSquare(x.n * x.n + x.d * x.d)
       THEN Rat(ISqrt(x.n * x.n + x.d * x.d) - x.d, x.n)
  ELSE Unrepresented(<<"Tan", x>>)

(* ------------------------------ Commands -------------------------------- *)
\* a command constructed with a stamp other than 0
CommandsStamped1 ==
  [lin |-> Q(0, 1), ang |-> Q(0, 1), front_steering |-> Q(0, 1),
   rear_steering |-> Q(0, 1), stamp |-> 1]

\* struct Commands and its constructor: all values 0.0, stamp 0.0.  Variant A
\* has no steering fields; they stay 0 there.
Commands(l, a, f, r, t) ==
  [lin |-> l, ang |-> a, front_steering |-> f, rear_steering |-> r, stamp |-> t]

DefaultCommands == Commands(Zero, Zero, Zero, Zero, 0)

(* --------------------------- motion limiter ----------------------------- *)
\* SpeedLimiter's constructor: no limit enabled, all bounds 0.0
NoLimits ==
  [has_velocity_limits |-> FALSE, has_acceleration_limits |-> FALSE,
   has_jerk_limits |-> FALSE,
   min_velocity |-> Zero, max_velocity |-> Zero,
   min_acceleration |-> Zero, max_acceleration |-> Zero,
   min_jerk |-> Zero, max_jerk |-> Zero]

\* stage 1: the acceleration of this step stays within jerk * dt of the
\* acceleration (v0 - v1) / dt of the previous step
limit_jerk(L, v, v0, v1, dt) ==
  IF L.has_jerk_limits /\ dt > 0
  THEN LET a_prev == RDiv(RSub(v0, v1), Int2Q(dt))
           a      == RDiv(RSub(v, v0), Int2Q(dt))
           a_lim  == clamp(a, RAdd(a_prev, RMul(L.min_jerk, Int2Q(dt))),
                              RAdd(a_prev, RMul(L.max_jerk, Int2Q(dt))))
       IN RAdd(v0, RMul(a_lim, Int2Q(dt)))
  ELSE v

\* stage 2: the acceleration (v - v0) / dt is clamped
limit_acceleration(L, v, v0, dt) ==
  IF L.has_acceleration_limits /\ dt > 0
  THEN LET a == clamp(RDiv(RSub(v, v0), Int2Q(dt)),
                      L.min_acceleration, L.max_acceleration)
       IN RAdd(v0, RMul(a, Int2Q(dt)))
  ELSE v

\* stage 3: the value is clamped
limit_velocity(L, v) ==
  IF L.has_velocity_limits THEN clamp(v, L.min_velocity, L.max_velocity) ELSE v

\* SpeedLimiter::limit(v, v0, v1, dt): the value v is left with
limit(L, v, v0, v1, dt) ==
  limit_velocity(L, limit_acceleration(L, limit_jerk(L, v, v0, v1, dt), v0, dt))

(* ------------------------------ odometry -------------------------------- *)
\* The estimator's state; the planar position (x, y) is not modelled.
OdometryConstructed ==
  [initialised |-> FALSE, timestamp |-> 0, heading |-> Zero,
   linear |-> Zero, angular |-> Zero,
   linear_acc |-> << >>, angular_acc |-> << >>,
   wheel_separation |-> Zero, wheel_radius |-> Zero, wheel_base |-> Zero,
   velocity_rolling_window_size |-> 1]

RECURSIVE SumSeq(_)
SumSeq(s) == IF s = << >> THEN Zero ELSE RAdd(Head(s), SumSeq(Tail(s)))

\* newest sample inserted, oldest evicted beyond the window size
Roll(acc, x, size) ==
  LET a == Append(acc, x)
  IN IF Len(a) > size THEN Tail(a) ELSE a

RollingMean(acc) == RDiv(SumSeq(acc), Int2Q(Len(acc)))

\* Odometry::init(time)
Odometry_init(o, time) ==
  [o EXCEPT !.initialised = TRUE, !.timestamp = time, !.heading = Zero]

\* integration of one step with the instantaneous velocities
Odometry_integrate(o, linear, angular, time) ==
  LET dt   == time - o.timestamp
      lacc == Roll(o.linear_acc, linear, o.velocity_rolling_window_size)
      aacc == Roll(o.angular_acc, angular, o.velocity_rolling_window_size)
  IN IF dt <= 0 THEN o
     ELSE [o EXCEPT !.timestamp = time,
                    !.linear_acc = lacc, !.angular_acc = aacc,
                    !.linear = RollingMean(lacc), !.angular = RollingMean(aacc),
                    !.heading = RAdd(o.heading, RMul(angular, Int2Q(dt)))]

\* Odometry::update(wheel_linear_position, wheel_linear_velocity, steering, time)
Odometry_update(o, pos, vel, steering, time) ==
  LET linear  == vel
      angular == RDiv(RMul(linear, Tan(steering)), o.wheel_base)
  IN Odometry_integrate(o, linear, angular, time)

\* Odometry::updateOpenLoop(linear, angular, time)
Odometry_updateOpenLoop(o, linear, angular, time) ==
  Odometry_integrate(o, linear, angular, time)

\* Odometry::setWheelParams: Variant A passes (separation, radius) only and
\* the separation then serves as the steering lever; Variant B passes all three
Odometry_setWheelParams(o, ws, wr, wb) ==
  [o EXCEPT !.wheel_separation = ws, !.wheel_radius = wr, !.wheel_base = wb]

Odometry_setVelocityRollingWindowSize(o, size) ==
  [o EXCEPT !.velocity_rolling_window_size = size,
            !.linear_acc = << >>, !.angular_acc = << >>]

(* -------------------------------- state --------------------------------- *)
VARIABLES
  variant,       \* "A": AckermannController, "B": FourWheelSteeringController
  state_,        \* ControllerBase::state_
  now,           \* the clock, ros::Time::now()
  cfg,           \* the controller's configuration members
  command_,      \* RealtimeBuffer<Commands> fed by cmdVelCallback
  command_four_wheel_steering_,  \* RealtimeBuffer fed by cmdFourWheelSteeringCallback
  command_struct_,               \* staging struct of cmdVelCallback
  command_struct_four_wheel_steering_,  \* staging struct of the other callback
  cb,            \* the ingestion callback in progress: position and message
  last0_cmd_, last1_cmd_,   \* limiter history
  joints,        \* command value of every actuator handle
  last_state_publish_time_,
  odometry_,
  claimed_resources,
  rt_time,       \* the time of the real-time loop's latest starting() or update()
  prov,          \* history: accepted ingestion calls, latest cycle aborted,
                 \* no cycle completed since the latest starting()
  trace          \* history: what the last operation did

vars == <<variant, state_, now, cfg, command_, command_four_wheel_steering_,
          command_struct_, command_struct_four_wheel_steering_, cb,
          last0_cmd_, last1_cmd_, joints, last_state_publish_time_,
          odometry_, claimed_resources, rt_time, prov, trace>>

\* the members both contexts could reach: the command buffers
buffers == <<command_, command_four_wheel_steering_>>
\* the staging structs of the ingestion callbacks
staging == <<command_struct_, command_struct_four_wheel_steering_>>
\* the state owned by the real-time context
rt_state == <<last0_cmd_, last1_cmd_, joints, last_state_publish_time_, odometry_>>

isRunning == state_ = "RUNNING"

NoTrace == [op |-> "none"]

(* --------------------------- initialisation ----------------------------- *)
\* a parameter that is not on the parameter server
Absent == [k |-> "absent", n |-> 0, d |-> 1]

\* getWheelNames without the tests on the array's size and element types
getWheelNames_untyped(param) ==
  IF param.type = "missing" THEN [ok |-> FALSE, size |-> 0]
  ELSE IF param.type = "array" THEN [ok |-> TRUE, size |-> Len(param.elems)]
       ELSE IF param.type = "string" THEN [ok |-> TRUE, size |-> 1]
            ELSE [ok |-> FALSE, size |-> 0]

\* getWheelNames(controller_nh, wheel_param, wheel_names): the parameter is
\* [type |-> "missing" | "array" | "string" | "other", elems |-> types of the
\* array's elements]; the result is [ok, size of wheel_names]
getWheelNames(param) ==
  IF param.type = "missing" THEN [ok |-> FALSE, size |-> 0]
  ELSE IF param.type = "array"
       THEN IF Len(param.elems) = 0 THEN [ok |-> FALSE, size |-> 0]
            ELSE IF \E i \in 1..Len(param.elems) : param.elems[i] # "string"
                 THEN [ok |-> FALSE, size |-> 0]
                 ELSE [ok |-> TRUE, size |-> Len(param.elems)]
       ELSE IF param.type = "string" THEN [ok |-> TRUE, size |-> 1]
            ELSE [ok |-> FALSE, size |-> 0]

\* isCylinder(link) and getWheelRadius(link, wheel_radius): the link is
\* [exists, collision, geometry, cylinder, radius]
isCylinder(link) ==
  link.exists /\ link.collision /\ link.geometry /\ link.cylinder

\* setOdomParamsFromUrdf: the set of outcomes [res, wheel_separation_,
\* wheel_radius_]; res is "true", "false" or "fault".  The radius lookup
\* dereferences the left wheel joint without a test, and getWheelRadius
\* dereferences the link that isCylinder has just refused, to log its name:
\* a null joint and a null link both end the process.
setOdomParamsFromUrdf(urdf, sep0, rad0, lookup_wheel_separation, lookup_wheel_radius) ==
  LET out(r, sp, rd) == [res |-> r, wheel_separation_ |-> sp, wheel_radius_ |-> rd]
      sep1 == IF lookup_wheel_separation THEN urdf.separation ELSE sep0
  IN IF ~(lookup_wheel_separation \/ lookup_wheel_radius) THEN {out("true", sep0, rad0)}
     ELSE IF ~urdf.present THEN {out("false", sep0, rad0)}
     ELSE IF lookup_wheel_separation /\ ~urdf.left_joint THEN {out("false", sep0, rad0)}
     ELSE IF lookup_wheel_separation /\ ~urdf.right_joint THEN {out("false", sep0, rad0)}
     ELSE IF ~lookup_wheel_radius THEN {out("true", sep1, rad0)}
     ELSE IF ~urdf.left_joint THEN {out("fault", sep1, rad0)}
     ELSE IF ~urdf.left_link.exists THEN {out("fault", sep1, rad0)}
     ELSE IF ~isCylinder(urdf.left_link) THEN {out("false", sep1, rad0)}
     ELSE {out("true", sep1, urdf.left_link.radius)}

\* the members as the constructors leave them
ConstructedCfg ==
  [open_loop_ |-> FALSE,
   wheel_separation_ |-> Zero, wheel_radius_ |-> Zero, wheel_base_ |-> Zero,
   wheel_separation_multiplier_ |-> Int2Q(1), wheel_radius_multiplier_ |-> Int2Q(1),
   cmd_vel_timeout_ |-> 1,
   enable_odom_tf_ |-> TRUE, enable_twist_cmd_ |-> FALSE,
   wheel_joints_size_ |-> 0, steering_joints_size_ |-> 0,
   publish_period_ |-> 0,
   limiter_lin_ |-> NoLimits, limiter_ang_ |-> NoLimits,
   wheel_iface |-> "none", steering_iface |-> "none",
   subscribed |-> "none"]

ConstructedJoints ==
  [left_wheel |-> << >>, right_wheel |-> << >>,
   left_steering |-> << >>, right_steering |-> << >>]

\* a default-constructed JointHandle: it is bound to no joint
Unbound == [k |-> "unbound", n |-> 0, d |-> 1]

\* vector::resize(n) of a vector of handles: the slots it adds hold
\* default-constructed handles
Resize(v, n) == [i \in 1..n |-> IF i <= Len(v) THEN v[i] ELSE Unbound]

\* the loops of getHandle at the end of init(): every slot is bound anew; a
\* bound handle shows the command value hw the hardware holds for its joint
Bind(j, hw) ==
  [left_wheel |-> [i \in 1..Len(j.left_wheel) |-> hw],
   right_wheel |-> [i \in 1..Len(j.right_wheel) |-> hw],
   left_steering |-> [i \in 1..Len(j.left_steering) |-> hw],
   right_steering |-> [i \in 1..Len(j.right_steering) |-> hw]]

\* controller_nh.param / getParam of an optional value
ParamOr(value, default) == IF value = Absent THEN default ELSE value

\* setOdomPubFields(root_nh, controller_nh): ROS_ASSERT ends the process
\* unless pose_covariance_diagonal and twist_covariance_diagonal are arrays
\* of 6 doubles; a parameter is [type, elems] as for the joint names
isCovarianceDiagonal(param) ==
  /\ param.type = "array" /\ Len(param.elems) = 6
  /\ \A i \in 1..Len(param.elems) : param.elems[i] = "double"

setOdomPubFields(env) ==
  IF isCovarianceDiagonal(env.pose_covariance_diagonal)
     /\ isCovarianceDiagonal(env.twist_covariance_diagonal)
  THEN "done" ELSE "fault"

\* init() without the test for two joints by side
wrongCount_never(v, size) == FALSE

\* Variant B: "two wheels by side (left and right) is needed", and the same
\* for the steerings
wrongCount(v, size) == v = "B" /\ size # 2

\* init(hw_pos, hw_vel, root_nh, controller_nh) of both classes: the set of
\* outcomes [res, cfg, joints, odometry]; env is the parameter server and the
\* hardware.  res is "true", "false", "throw" (getHandle found no joint of
\* that name on the interface: the first call of getHandle throws and no
\* slot is bound) or "fault" (the process ended in init()).
init(v, env, c, j, o) ==
  LET out(r, cc, jj, oo) == [res |-> r, cfg |-> cc, joints |-> jj, odometry |-> oo]
      lw == getWheelNames(env.left_wheel)
      rw == getWheelNames(env.right_wheel)
      ls == getWheelNames(env.left_steering)
      rs == getWheelNames(env.right_steering)
      c1 == [c EXCEPT !.wheel_joints_size_ = lw.size]
      j1 == [j EXCEPT !.left_wheel = Resize(j.left_wheel, lw.size),
                      !.right_wheel = Resize(j.right_wheel, lw.size)]
      c2 == [c1 EXCEPT !.steering_joints_size_ = ls.size]
      j2 == [j1 EXCEPT !.left_steering = Resize(j1.left_steering, ls.size),
                       !.right_steering = Resize(j1.right_steering, ls.size)]
      c3 == [c2 EXCEPT
               !.publish_period_ = env.publish_period,
               !.open_loop_ = env.open_loop,
               !.wheel_separation_multiplier_ =
                  IF v = "A" THEN ParamOr(env.wheel_separation_multiplier, @) ELSE @,
               !.wheel_radius_multiplier_ =
                  IF v = "A" THEN ParamOr(env.wheel_radius_multiplier, @) ELSE @,
               !.cmd_vel_timeout_ = env.cmd_vel_timeout,
               !.enable_odom_tf_ = env.enable_odom_tf,
               !.enable_twist_cmd_ = IF v = "B" THEN env.enable_twist_cmd ELSE @,
               !.limiter_lin_ = env.limiter_lin,
               !.limiter_ang_ = env.limiter_ang,
               !.wheel_separation_ = ParamOr(env.wheel_separation, @),
               !.wheel_radius_ = ParamOr(env.wheel_radius, @),
               !.wheel_base_ = IF v = "B" THEN ParamOr(env.wheel_base, @) ELSE @]
      o3 == Odometry_setVelocityRollingWindowSize(o, env.velocity_rolling_window_size)
      lookup_wheel_separation == env.wheel_separation = Absent
      lookup_wheel_radius == env.wheel_radius = Absent
      geo == setOdomParamsFromUrdf(env.urdf, c3.wheel_separation_, c3.wheel_radius_,
                                   lookup_wheel_separation, lookup_wheel_radius)
      c4(g) == [c3 EXCEPT !.wheel_separation_ = g.wheel_separation_,
                          !.wheel_radius_ = g.wheel_radius_]
      ws(cc) == IF v = "A" THEN RMul(cc.wheel_separation_multiplier_, cc.wheel_separation_)
                ELSE cc.wheel_separation_
      wr(cc) == IF v = "A" THEN RMul(cc.wheel_radius_multiplier_, cc.wheel_radius_)
                ELSE cc.wheel_radius_
      wb(cc) == IF v = "A" THEN ws(cc) ELSE cc.wheel_base_
      c5(g) == [c4(g) EXCEPT
                  !.wheel_iface = "velocity",
                  !.steering_iface = IF v = "A" THEN "velocity" ELSE "position",
                  !.subscribed = IF v = "B" /\ ~c3.enable_twist_cmd_
                                 THEN "cmd_four_wheel_steering" ELSE "cmd_vel"]
  IN IF ~lw.ok \/ ~rw.ok THEN {out("false", c, j, o)}
     ELSE IF lw.size # rw.size THEN {out("false", c, j, o)}
     ELSE IF wrongCount(v, lw.size) THEN {out("false", c, j, o)}
     ELSE IF ~ls.ok \/ ~rs.ok THEN {out("false", c1, j1, o)}
     ELSE IF ls.size # rs.size THEN {out("false", c1, j1, o)}
     ELSE IF wrongCount(v, ls.size) THEN {out("false", c1, j1, o)}
     ELSE { IF g.res # "true" THEN out(g.res, c4(g), j2, o3)
            ELSE LET o4 == Odometry_setWheelParams(o3, ws(c4(g)), wr(c4(g)), wb(c4(g)))
                 IN IF setOdomPubFields(env) = "fault" THEN out("fault", c4(g), j2, o4)
                    ELSE IF ~env.hw_joints THEN out("throw", c4(g), j2, o4)
                    ELSE out("true", c5(g), Bind(j2, env.hw_command), o4) : g \in geo }
(* ------------------------------ lifecycle ------------------------------- *)
JointNames(c) ==
  [velocity |->
     {<<"left_wheel", i>> : i \in 1..c.wheel_joints_size_} \cup
     {<<"right_wheel", i>> : i \in 1..c.wheel_joints_size_} \cup
     (IF c.steering_iface = "velocity"
      THEN {<<"left_steering", i>> : i \in 1..c.steering_joints_size_} \cup
           {<<"right_steering", i>> : i \in 1..c.steering_joints_size_}
      ELSE {}),
   position |->
     IF c.steering_iface = "position"
     THEN {<<"left_steering", i>> : i \in 1..c.steering_joints_size_} \cup
          {<<"right_steering", i>> : i \in 1..c.steering_joints_size_}
     ELSE {}]

\* the caller's claimed_resources before any call: Variant A's is a vector
\* of InterfaceResources, Variant B's a std::set of joint names
NoClaims(v) == IF v = "A" THEN << >> ELSE {}

\* claimed_resources after a successful init(): Variant A pushes the claims
\* of the position interface and then those of the velocity interface,
\* Variant B inserts both into the one set
Claims(v, c) ==
  LET n == JointNames(c)
  IN IF v = "A" THEN <<n.position, n.velocity>> ELSE n.position \cup n.velocity

\* initRequest(robot_hw, root_nh, ctrlr_nh, claimed_resources): in every state
\* but CONSTRUCTED it returns false and changes nothing.  An exception
\* of init() leaves initRequest() as it is thrown.
initRequest(env) ==
  /\ state_ # "FAULT"
  /\ IF state_ # "CONSTRUCTED" \/ ~env.pos_hw \/ ~env.vel_hw
     THEN /\ trace' = [op |-> "initRequest", res |-> "false", env |-> env,
                       from |-> state_, claimed |-> claimed_resources]
          /\ UNCHANGED <<state_, cfg, joints, odometry_, claimed_resources>>
     ELSE \E r \in init(variant, env, cfg, joints, odometry_) :
            /\ cfg' = r.cfg
            /\ joints' = r.joints
            /\ odometry_' = r.odometry
            /\ state_' = IF r.res = "true" THEN "INITIALIZED"
                         ELSE IF r.res = "fault" THEN "FAULT" ELSE state_
            /\ claimed_resources' =
                 IF r.res = "true" THEN Claims(variant, r.cfg) ELSE claimed_resources
            /\ trace' = [op |-> "initRequest", res |-> r.res, env |-> env,
                         from |-> state_, claimed |-> claimed_resources]
  /\ UNCHANGED <<variant, now, buffers, staging, cb, last0_cmd_, last1_cmd_,
                 last_state_publish_time_, rt_time, prov>>

\* brake(): 0 to every wheel and every steering handle
brake(c, j) ==
  [left_wheel |-> [i \in 1..Len(j.left_wheel) |->
                     IF i <= c.wheel_joints_size_ THEN Zero ELSE j.left_wheel[i]],
   right_wheel |-> [i \in 1..Len(j.right_wheel) |->
                     IF i <= c.wheel_joints_size_ THEN Zero ELSE j.right_wheel[i]],
   left_steering |-> [i \in 1..Len(j.left_steering) |->
                     IF i <= c.steering_joints_size_ THEN Zero ELSE j.left_steering[i]],
   right_steering |-> [i \in 1..Len(j.right_steering) |->
                     IF i <= c.steering_joints_size_ THEN Zero ELSE j.right_steering[i]]]

\* the time the real-time loop passes to starting() and stopping(): the clock
TimeArgs == {now}

\* the time the real-time loop passes to update(): the clock, later than at
\* its previous iteration
CycleTimes == {t \in {now} : t > rt_time}

\* starting() without the brake
starting_nobrake(time) ==
  /\ state_ \in {"INITIALIZED", "STOPPED"}
  /\ last_state_publish_time_' = time
  /\ odometry_' = Odometry_init(odometry_, time)
  /\ state_' = "RUNNING"
  /\ rt_time' = time
  /\ prov' = [prov EXCEPT !.fresh = TRUE]
  /\ trace' = [op |-> "starting", time |-> time, braked |-> joints # brake(cfg, joints)]
  /\ UNCHANGED <<variant, now, cfg, buffers, staging, cb, last0_cmd_, last1_cmd_,
                 joints, claimed_resources>>

\* starting() that also clears the command buffers
starting_reset(time) ==
  /\ state_ \in {"INITIALIZED", "STOPPED"}
  /\ joints' = brake(cfg, joints)
  /\ last_state_publish_time_' = time
  /\ odometry_' = Odometry_init(odometry_, time)
  /\ state_' = "RUNNING"
  /\ rt_time' = time
  /\ command_' = [lin |-> Zero, ang |-> Zero, front_steering |-> Zero,
                  rear_steering |-> Zero, stamp |-> 0]
  /\ command_four_wheel_steering_' = command_'
  /\ prov' = [prov EXCEPT !.fresh = TRUE]
  /\ trace' = [op |-> "starting", time |-> time, braked |-> joints # brake(cfg, joints)]
  /\ UNCHANGED <<variant, now, cfg, staging, cb, last0_cmd_, last1_cmd_,
                 claimed_resources>>

\* starting() that also clears the limiter history
starting_clearhistory(time) ==
  /\ state_ \in {"INITIALIZED", "STOPPED"}
  /\ joints' = brake(cfg, joints)
  /\ last_state_publish_time_' = time
  /\ odometry_' = Odometry_init(odometry_, time)
  /\ state_' = "RUNNING"
  /\ rt_time' = time
  /\ last0_cmd_' = [lin |-> Zero, ang |-> Zero, front_steering |-> Zero,
                    rear_steering |-> Zero, stamp |-> 0]
  /\ last1_cmd_' = last0_cmd_'
  /\ prov' = [prov EXCEPT !.fresh = TRUE]
  /\ trace' = [op |-> "starting", time |-> time, braked |-> joints # brake(cfg, joints)]
  /\ UNCHANGED <<variant, now, cfg, buffers, staging, cb, claimed_resources>>

\* starting(time), called by ControllerBase::startRequest, which then sets
\* the state to RUNNING
starting(time) ==
  /\ state_ \in {"INITIALIZED", "STOPPED"}
  /\ joints' = brake(cfg, joints)
  /\ last_state_publish_time_' = time
  /\ odometry_' = Odometry_init(odometry_, time)
  /\ state_' = "RUNNING"
  /\ rt_time' = time
  /\ prov' = [prov EXCEPT !.fresh = TRUE]
  /\ trace' = [op |-> "starting", time |-> time, braked |-> joints # brake(cfg, joints)]
  /\ UNCHANGED <<variant, now, cfg, buffers, staging, cb, last0_cmd_, last1_cmd_,
                 claimed_resources>>

\* stopping() without the brake
stopping_nobrake(time) ==
  /\ state_ = "RUNNING"
  /\ state_' = "STOPPED"
  /\ trace' = [op |-> "stopping", time |-> time, braked |-> joints # brake(cfg, joints)]
  /\ UNCHANGED <<variant, now, cfg, buffers, staging, cb, last0_cmd_, last1_cmd_,
                 joints, last_state_publish_time_, odometry_, claimed_resources,
                 rt_time, prov>>

\* stopping(time), called by ControllerBase::stopRequest, which then leaves
\* the RUNNING state
stopping(time) ==
  /\ state_ = "RUNNING"
  /\ joints' = brake(cfg, joints)
  /\ state_' = "STOPPED"
  /\ trace' = [op |-> "stopping", time |-> time, braked |-> joints # brake(cfg, joints)]
  /\ UNCHANGED <<variant, now, cfg, buffers, staging, cb, last0_cmd_, last1_cmd_,
                 last_state_publish_time_, odometry_, claimed_resources, rt_time, prov>>

\* the clock advances by one control period; while the controller runs, the
\* real-time loop has called update() in the period that ends. trace keeps
\* describing the last operation of the controller.
Tick ==
  /\ now < MaxTime
  /\ state_ # "FAULT"
  /\ state_ = "RUNNING" => rt_time = now
  /\ now' = now + 1
  /\ UNCHANGED trace
  /\ UNCHANGED <<variant, state_, cfg, buffers, staging, cb, last0_cmd_, last1_cmd_,
                 joints, last_state_publish_time_, odometry_, claimed_resources, rt_time, prov>>
(* ------------------------------ ingestion ------------------------------- *)
\* the geometry_msgs::Twist messages the command source sends
TwistMsgs ==
  {[linear_x |-> Int2Q(1), angular_z |-> Zero],
   [linear_x |-> Zero, angular_z |-> Int2Q(2)]}

\* the FourWheelSteeringDrive messages the command source sends
FourWheelSteeringMsgs ==
  {[speed |-> Int2Q(1), front_steering_angle |-> Q(1, 4), rear_steering_angle |-> Q(-1, 4)],
   [speed |-> Int2Q(-1), front_steering_angle |-> Zero, rear_steering_angle |-> Q(1, 4)]}

\* RealtimeBuffer: writeFromNonRT(data) replaces the buffered value in one
\* step and readFromRT() delivers the value buffered at that moment
writeFromNonRT(data) == data
readFromRT(buffer) == buffer

\* the ingestion callback is not executing
Idle == [pc |-> "idle", msg |-> DefaultCommands]

\* cmdVelCallback() without the test of isRunning()
cmdVelCallback_always(command) ==
  /\ cfg.subscribed = "cmd_vel"
  /\ state_ # "FAULT"
  /\ cb.pc = "idle"
  /\ prov.count < MaxIngest
  /\ command_struct_' = [command_struct_ EXCEPT !.ang = command.angular_z,
                                                 !.lin = command.linear_x,
                                                 !.stamp = now]
  /\ cb' = [pc |-> "write",
            msg |-> Commands(command.linear_x, command.angular_z, Zero, Zero, now)]
  /\ prov' = [prov EXCEPT !.count = @ + 1]
  /\ trace' = [op |-> "cmdVelCallback", accepted |-> isRunning]
  /\ UNCHANGED <<variant, state_, now, cfg, buffers, command_struct_four_wheel_steering_,
                 last0_cmd_, last1_cmd_, joints, last_state_publish_time_,
                 odometry_, claimed_resources, rt_time>>

\* cmdVelCallback(command), up to the call of writeFromNonRT: when the
\* controller is running the message's fields and the stamp go to the staging
\* struct, which only this callback touches; otherwise the call only logs
cmdVelCallback(command) ==
  /\ cfg.subscribed = "cmd_vel"
  /\ state_ # "FAULT"
  /\ cb.pc = "idle"
  /\ IF isRunning
     THEN /\ prov.count < MaxIngest
          /\ command_struct_' = [command_struct_ EXCEPT !.ang = command.angular_z,
                                                         !.lin = command.linear_x,
                                                         !.stamp = now]
          /\ cb' = [pc |-> "write",
                    msg |-> Commands(command.linear_x, command.angular_z, Zero, Zero, now)]
          /\ prov' = [prov EXCEPT !.count = @ + 1]
          /\ trace' = [op |-> "cmdVelCallback", accepted |-> TRUE]
     ELSE /\ trace' = [op |-> "cmdVelCallback", accepted |-> FALSE]
          /\ UNCHANGED <<command_struct_, cb, prov>>
  /\ UNCHANGED <<variant, state_, now, cfg, buffers, command_struct_four_wheel_steering_,
                 last0_cmd_, last1_cmd_, joints, last_state_publish_time_,
                 odometry_, claimed_resources, rt_time>>

\* a write to the buffer that leaves the buffered stamp in place
cmdVelCallback_write_oldstamp ==
  /\ cb.pc = "write"
  /\ cfg.subscribed = "cmd_vel"
  /\ command_' = writeFromNonRT([command_struct_ EXCEPT !.stamp = command_.stamp])
  /\ cb' = Idle
  /\ prov' = [prov EXCEPT !.latest = cb.msg]
  /\ trace' = [op |-> "cmdVelCallback_write"]
  /\ UNCHANGED <<variant, state_, now, cfg, command_four_wheel_steering_, staging,
                 last0_cmd_, last1_cmd_, joints, last_state_publish_time_,
                 odometry_, claimed_resources, rt_time>>

\* cmdVelCallback: command_.writeFromNonRT(command_struct_)
cmdVelCallback_write ==
  /\ cb.pc = "write"
  /\ cfg.subscribed = "cmd_vel"
  /\ command_' = writeFromNonRT(command_struct_)
  /\ cb' = Idle
  /\ prov' = [prov EXCEPT !.latest = cb.msg]
  /\ trace' = [op |-> "cmdVelCallback_write"]
  /\ UNCHANGED <<variant, state_, now, cfg, command_four_wheel_steering_, staging,
                 last0_cmd_, last1_cmd_, joints, last_state_publish_time_,
                 odometry_, claimed_resources, rt_time>>

\* cmdFourWheelSteeringCallback(command), up to the call of writeFromNonRT
cmdFourWheelSteeringCallback(command) ==
  /\ cfg.subscribed = "cmd_four_wheel_steering"
  /\ state_ # "FAULT"
  /\ cb.pc = "idle"
  /\ IF isRunning
     THEN /\ prov.count < MaxIngest
          /\ command_struct_four_wheel_steering_' =
               [command_struct_four_wheel_steering_ EXCEPT
                  !.front_steering = command.front_steering_angle,
                  !.rear_steering = command.rear_steering_angle,
                  !.lin = command.speed,
                  !.stamp = now]
          /\ cb' = [pc |-> "write",
                    msg |-> Commands(command.speed, Zero, command.front_steering_angle,
                                     command.rear_steering_angle, now)]
          /\ prov' = [prov EXCEPT !.count = @ + 1]
          /\ trace' = [op |-> "cmdFourWheelSteeringCallback", accepted |-> TRUE]
     ELSE /\ trace' = [op |-> "cmdFourWheelSteeringCallback", accepted |-> FALSE]
          /\ UNCHANGED <<command_struct_four_wheel_steering_, cb, prov>>
  /\ UNCHANGED <<variant, state_, now, cfg, buffers, command_struct_,
                 last0_cmd_, last1_cmd_, joints, last_state_publish_time_,
                 odometry_, claimed_resources, rt_time>>

\* cmdFourWheelSteeringCallback: writeFromNonRT of the staging struct
cmdFourWheelSteeringCallback_write ==
  /\ cb.pc = "write"
  /\ cfg.subscribed = "cmd_four_wheel_steering"
  /\ command_four_wheel_steering_' = writeFromNonRT(command_struct_four_wheel_steering_)
  /\ cb' = Idle
  /\ prov' = [prov EXCEPT !.latest = cb.msg]
  /\ trace' = [op |-> "cmdFourWheelSteeringCallback_write"]
  /\ UNCHANGED <<variant, state_, now, cfg, command_, staging,
                 last0_cmd_, last1_cmd_, joints, last_state_publish_time_,
                 odometry_, claimed_resources, rt_time>>

(* -------------------------------- update ------------------------------- *)
\* what the joint handles read in one cycle
SteerAngles == {Zero, [k |-> "atan", n |-> 1, d |-> 1]}

\* the readings a frame can have as NaN: a position and a velocity on either
\* side, at the first or the last wheel, or a steering angle
NanSlots(n) ==
  {<<"lp", 1>>, <<"rp", n>>, <<"ls", n>>, <<"rs", 1>>, <<"lsteer", 0>>, <<"rsteer", 0>>}

\* the readings of one cycle: every wheel turns at vel and has turned by pos,
\* both steerings stand at steer, and the reading named by nanslot is NaN
Frame(n, pos, vel, steer, nanslot) ==
  LET rd(kind, i, x) == IF nanslot = <<kind, i>> THEN NaN ELSE x
  IN [lp |-> [i \in 1..n |-> rd("lp", i, pos)],
      rp |-> [i \in 1..n |-> rd("rp", i, pos)],
      ls |-> [i \in 1..n |-> rd("ls", i, vel)],
      rs |-> [i \in 1..n |-> rd("rs", i, vel)],
      lsteer |-> rd("lsteer", 0, steer),
      rsteer |-> rd("rsteer", 0, steer)]

SensorFrames(n) ==
  {Frame(n, Int2Q(1), Int2Q(1), steer, <<"none", 0>>) : steer \in SteerAngles}
  \cup {Frame(n, Int2Q(1), Int2Q(1), Zero, slot) : slot \in NanSlots(n)}

\* the readings update() takes: none in open loop
Readings == IF cfg.open_loop_ THEN {Frame(0, Zero, Zero, Zero, <<"none", 0>>)}
            ELSE SensorFrames(cfg.wheel_joints_size_)

\* the states [odom_free, tf_free] of the two publishers' locks that a cycle
\* meets (at most one of them held); they are tried only when a snapshot is due
Sinks(time) ==
  IF last_state_publish_time_ + cfg.publish_period_ < time
  THEN {[odom_free |-> TRUE, tf_free |-> TRUE], [odom_free |-> FALSE, tf_free |-> TRUE],
        [odom_free |-> TRUE, tf_free |-> FALSE]}
  ELSE {[odom_free |-> TRUE, tf_free |-> TRUE]}

\* some wheel position or velocity reading of the frame is NaN
FrameHasWheelNan(sens) ==
  \E i \in DOMAIN sens.lp : \/ isnan(sens.lp[i]) \/ isnan(sens.rp[i])
                            \/ isnan(sens.ls[i]) \/ isnan(sens.rs[i])

\* the loop over the wheel joints with only the positions tested
WheelReadingIsNan_positions(sens, n) ==
  \E i \in 1..n : isnan(sens.lp[i]) \/ isnan(sens.rp[i])

\* the loop over the wheel joints: TRUE when it returns from update()
WheelReadingIsNan(sens, n) ==
  \E i \in 1..n : \/ isnan(sens.lp[i]) \/ isnan(sens.rp[i])
                  \/ isnan(sens.ls[i]) \/ isnan(sens.rs[i])

\* mean over the wheels of one side, then over the two sides
SideMean(readings, n) == RDiv(SumSeq(readings), Int2Q(n))
WheelMean(left, right, n) ==
  RDiv(RAdd(SideMean(left, n), SideMean(right, n)), Int2Q(2))

\* steering_pos of Variant A: both readings are guarded by the size of the
\* left steering vector
steering_pos_A(sens, j) ==
  LET l == IF Len(j.left_steering) > 0 THEN sens.lsteer ELSE Zero
      r == IF Len(j.left_steering) > 0 THEN sens.rsteer ELSE Zero
  IN Mean2(l, r)

\* steering_pos of Variant B
steering_pos_B(sens, j) ==
  LET both == Len(j.left_steering) > 0 /\ Len(j.right_steering) > 0
      l == IF both THEN sens.lsteer ELSE Zero
      r == IF both THEN sens.rsteer ELSE Zero
  IN Mean2(l, r)

\* the odometry part of update(): [call, args, odometry]
updateOdometry(sens, time, steering_pos) ==
  IF cfg.open_loop_
  THEN [call |-> "updateOpenLoop",
        args |-> <<last0_cmd_.lin, last0_cmd_.ang, Zero>>,
        odometry |-> Odometry_updateOpenLoop(odometry_, last0_cmd_.lin, last0_cmd_.ang, time)]
  ELSE LET n   == cfg.wheel_joints_size_
           pos == WheelMean(sens.lp, sens.rp, n)
           vel == WheelMean(sens.ls, sens.rs, n)
       IN [call |-> "update",
           args |-> <<pos, vel, steering_pos>>,
           odometry |-> Odometry_update(odometry_, pos, vel, steering_pos, time)]

\* a snapshot due as soon as the period has passed
publishDue_nonstrict(time) == last_state_publish_time_ + cfg.publish_period_ <= time

\* the publication part of update(): is a snapshot due
publishDue(time) == last_state_publish_time_ + cfg.publish_period_ < time

\* publication that does not look at the locks
publish_anyway(time, odom_free, tf_free) ==
  IF publishDue(time)
  THEN [due |-> TRUE, odom |-> TRUE, tf |-> cfg.enable_odom_tf_,
        last_state_publish_time_ |-> last_state_publish_time_ + cfg.publish_period_]
  ELSE [due |-> FALSE, odom |-> FALSE, tf |-> FALSE,
        last_state_publish_time_ |-> last_state_publish_time_]

\* which sinks get a snapshot, and the new last_state_publish_time_
publish(time, odom_free, tf_free) ==
  IF publishDue(time)
  THEN [due |-> TRUE, odom |-> odom_free, tf |-> cfg.enable_odom_tf_ /\ tf_free,
        last_state_publish_time_ |-> last_state_publish_time_ + cfg.publish_period_]
  ELSE [due |-> FALSE, odom |-> FALSE, tf |-> FALSE,
        last_state_publish_time_ |-> last_state_publish_time_]

\* a brake on the distance between the stamp and the cycle's time
brakeIfTimeout_A_twosided(curr_cmd, time) ==
  IF Abs(time - curr_cmd.stamp) > cfg.cmd_vel_timeout_
  THEN [curr_cmd EXCEPT !.lin = Zero, !.ang = Zero]
  ELSE curr_cmd

\* "Brake if cmd_vel has timeout" of Variant A
brakeIfTimeout_A(curr_cmd, time) ==
  IF time - curr_cmd.stamp > cfg.cmd_vel_timeout_
  THEN [curr_cmd EXCEPT !.lin = Zero, !.ang = Zero]
  ELSE curr_cmd

\* the brake of Variant B without the two steering angles
brakeIfTimeout_B_linang(curr_cmd, time) ==
  IF time - curr_cmd.stamp > cfg.cmd_vel_timeout_
  THEN [curr_cmd EXCEPT !.lin = Zero, !.ang = Zero]
  ELSE curr_cmd

\* "Brake if cmd_vel has timeout" of Variant B
brakeIfTimeout_B(curr_cmd, time) ==
  IF time - curr_cmd.stamp > cfg.cmd_vel_timeout_
  THEN [curr_cmd EXCEPT !.lin = Zero, !.ang = Zero,
                        !.front_steering = Zero, !.rear_steering = Zero]
  ELSE curr_cmd

\* the limiters called with the age of the command as dt
limitCommand_age(curr_cmd, period) ==
  [curr_cmd EXCEPT
     !.lin = limit(cfg.limiter_lin_, curr_cmd.lin, last0_cmd_.lin, last1_cmd_.lin,
                   now - curr_cmd.stamp),
     !.ang = limit(cfg.limiter_ang_, curr_cmd.ang, last0_cmd_.ang, last1_cmd_.ang,
                   now - curr_cmd.stamp)]

\* "Limit velocities and accelerations"
limitCommand(curr_cmd, period) ==
  [curr_cmd EXCEPT
     !.lin = limit(cfg.limiter_lin_, curr_cmd.lin, last0_cmd_.lin, last1_cmd_.lin, period),
     !.ang = limit(cfg.limiter_ang_, curr_cmd.ang, last0_cmd_.ang, last1_cmd_.ang, period)]

\* the control period the real-time loop passes: the time since its previous
\* iteration
Period(time) == time - rt_time

\* an update() that tests the readings after the publication block
updateAborted_late(time, sens) ==
  /\ trace' = [op |-> "update", completed |-> FALSE, time |-> time,
               wheel_nan |-> FrameHasWheelNan(sens),
               steer_nan |-> isnan(sens.lsteer) \/ isnan(sens.rsteer),
               after_abort |-> prov.aborted,
               odom_pub |-> publish(time, TRUE, TRUE).odom,
               tf_pub |-> publish(time, TRUE, TRUE).tf, buffer_read |-> FALSE,
               written |-> {}]
  /\ rt_time' = time
  /\ prov' = [prov EXCEPT !.aborted = TRUE]
  /\ last_state_publish_time_' = publish(time, TRUE, TRUE).last_state_publish_time_
  /\ UNCHANGED <<variant, state_, now, cfg, buffers, staging, cb, last0_cmd_,
                 last1_cmd_, joints, odometry_, claimed_resources>>

\* an update() that returns in the loop over the wheel joints: it has called
\* no publisher, no buffer and no setCommand
updateAborted(time, sens) ==
  /\ trace' = [op |-> "update", completed |-> FALSE, time |-> time,
               wheel_nan |-> FrameHasWheelNan(sens),
               steer_nan |-> isnan(sens.lsteer) \/ isnan(sens.rsteer),
               after_abort |-> prov.aborted,
               odom_pub |-> FALSE, tf_pub |-> FALSE, buffer_read |-> FALSE,
               written |-> {}]
  /\ rt_time' = time
  /\ prov' = [prov EXCEPT !.aborted = TRUE]
  /\ UNCHANGED <<variant, state_, now, cfg, buffers, staging, cb, last0_cmd_,
                 last1_cmd_, joints, last_state_publish_time_, odometry_,
                 claimed_resources>>

\* the record of a completed cycle; written names the handle vectors that
\* got a setCommand, after_start tells the first cycle that completes after
\* starting(), whatever the callbacks did in between
CycleTrace(time, period, sens, sink, odo, pub, read, target, written) ==
  [op |-> "update", completed |-> TRUE, time |-> time, period |-> period,
   after_start |-> prov.fresh, buffer_read |-> TRUE, written |-> written,
   odom_free |-> sink.odom_free, tf_free |-> sink.tf_free,
   wheel_nan |-> FrameHasWheelNan(sens),
   steer_nan |-> isnan(sens.lsteer) \/ isnan(sens.rsteer),
   after_abort |-> prov.aborted,
   odom_call |-> odo.call, odom_args |-> odo.args,
   due |-> pub.due, odom_pub |-> pub.odom, tf_pub |-> pub.tf,
   read |-> read, target |-> target]

\* the left wheel velocity with the whole separation as lever
vel_left_A_whole(curr_cmd) ==
  LET ws == RMul(cfg.wheel_separation_multiplier_, cfg.wheel_separation_)
      wr == RMul(cfg.wheel_radius_multiplier_, cfg.wheel_radius_)
  IN RDiv(RSub(curr_cmd.lin, RMul(curr_cmd.ang, ws)), wr)

\* Variant A wheel velocities
vel_left_A(curr_cmd) ==
  LET ws == RMul(cfg.wheel_separation_multiplier_, cfg.wheel_separation_)
      wr == RMul(cfg.wheel_radius_multiplier_, cfg.wheel_radius_)
  IN RDiv(RSub(curr_cmd.lin, RDiv(RMul(curr_cmd.ang, ws), Int2Q(2))), wr)

vel_right_A(curr_cmd) ==
  LET ws == RMul(cfg.wheel_separation_multiplier_, cfg.wheel_separation_)
      wr == RMul(cfg.wheel_radius_multiplier_, cfg.wheel_radius_)
  IN RDiv(RAdd(curr_cmd.lin, RDiv(RMul(curr_cmd.ang, ws), Int2Q(2))), wr)

\* AckermannController::update(time, period)
AckermannController_update(time, period, sens, odom_free, tf_free) ==
  /\ variant = "A"
  /\ isRunning
  /\ IF ~cfg.open_loop_ /\ WheelReadingIsNan(sens, cfg.wheel_joints_size_)
     THEN updateAborted(time, sens)
     ELSE LET odo      == updateOdometry(sens, time, steering_pos_A(sens, joints))
              pub      == publish(time, odom_free, tf_free)
              read     == readFromRT(command_)
              target   == brakeIfTimeout_A(read, time)
              curr_cmd == limitCommand(target, period)
          IN /\ odometry_' = odo.odometry
             /\ last_state_publish_time_' = pub.last_state_publish_time_
             /\ last1_cmd_' = last0_cmd_
             /\ last0_cmd_' = curr_cmd
             /\ joints' = [joints EXCEPT
                   !.left_wheel = [i \in 1..Len(@) |->
                       IF i <= cfg.wheel_joints_size_ THEN vel_left_A(curr_cmd) ELSE @[i]],
                   !.right_wheel = [i \in 1..Len(@) |->
                       IF i <= cfg.wheel_joints_size_ THEN vel_right_A(curr_cmd) ELSE @[i]]]
             /\ trace' = CycleTrace(time, period, sens,
                                     [odom_free |-> odom_free, tf_free |-> tf_free],
                                     odo, pub, read, target,
                                     IF cfg.wheel_joints_size_ > 0
                                     THEN {"left_wheel", "right_wheel"} ELSE {})
             /\ rt_time' = time
             /\ prov' = [prov EXCEPT !.aborted = FALSE, !.fresh = FALSE]
             /\ UNCHANGED <<variant, state_, now, cfg, buffers, staging, cb,
                            claimed_resources>>

\* sgn * sqrt(x) / wr
SignedSqrtOver(sgn, x, wr) ==
  IF IsQ(x) /\ IsQ(wr) /\ wr.n # 0
  THEN SignedSqrt(IF wr.n < 0 THEN -sgn ELSE sgn, RDiv(x, RSquare(wr)))
  ELSE RDiv(SignedSqrt(sgn, x), wr)

\* the front wheel velocity without the sign of lin
vel_front_B_unsigned(lin, side, angular_speed) ==
  LET ws == cfg.wheel_separation_
      wr == cfg.wheel_radius_
      along == RAdd(lin, RMul(Int2Q(side), RDiv(RMul(angular_speed, ws), Int2Q(2))))
      across == RMul(cfg.wheel_base_, angular_speed)
  IN SignedSqrtOver(1, RAdd(RSquare(along), RSquare(across)), wr)

\* Variant B wheel velocities
vel_front_B(lin, side, angular_speed) ==
  LET ws == cfg.wheel_separation_
      wr == cfg.wheel_radius_
      along == RAdd(lin, RMul(Int2Q(side), RDiv(RMul(angular_speed, ws), Int2Q(2))))
      across == RMul(cfg.wheel_base_, angular_speed)
  IN SignedSqrtOver(copysign1(lin), RAdd(RSquare(along), RSquare(across)), wr)

vel_left_front(curr_cmd, angular_speed) == vel_front_B(curr_cmd.lin, -1, angular_speed)
vel_right_front(curr_cmd, angular_speed) == vel_front_B(curr_cmd.lin, 1, angular_speed)

\* the left rear wheel velocity from the commanded angular speed
vel_left_rear_ang(curr_cmd, angular_speed) ==
  RDiv(RSub(curr_cmd.lin, RDiv(RMul(curr_cmd.ang, cfg.wheel_separation_), Int2Q(2))),
       cfg.wheel_radius_)

vel_left_rear(curr_cmd, angular_speed) ==
  RDiv(RSub(curr_cmd.lin, RDiv(RMul(angular_speed, cfg.wheel_separation_), Int2Q(2))),
       cfg.wheel_radius_)

vel_right_rear(curr_cmd, angular_speed) ==
  RDiv(RAdd(curr_cmd.lin, RDiv(RMul(angular_speed, cfg.wheel_separation_), Int2Q(2))),
       cfg.wheel_radius_)

\* threshold on the linear velocity estimate below which steering stays 0
SteeringThreshold == Q(1, 100)

\* the twist conversion without the threshold on the estimate
steering_B_nothreshold(curr_cmd, odo) ==
  IF cfg.enable_twist_cmd_
  THEN LET half == HalfAtan(RDiv(RMul(curr_cmd.ang, cfg.wheel_base_), odo.linear))
       IN [front |-> half, rear |-> RNeg(half)]
  ELSE [front |-> curr_cmd.front_steering, rear |-> curr_cmd.rear_steering]

\* the twist conversion in both input modes
steering_B_twist(curr_cmd, odo) ==
  IF RGt(RAbs(odo.linear), SteeringThreshold)
  THEN LET half == HalfAtan(RDiv(RMul(curr_cmd.ang, cfg.wheel_base_), odo.linear))
       IN [front |-> half, rear |-> RNeg(half)]
  ELSE [front |-> Zero, rear |-> Zero]

\* Variant B steering setpoints: [front, rear]
steering_B(curr_cmd, odo) ==
  IF cfg.enable_twist_cmd_
  THEN IF RGt(RAbs(odo.linear), SteeringThreshold)
       THEN LET half == HalfAtan(RDiv(RMul(curr_cmd.ang, cfg.wheel_base_), odo.linear))
            IN [front |-> half, rear |-> RNeg(half)]
       ELSE [front |-> Zero, rear |-> Zero]
  ELSE [front |-> curr_cmd.front_steering, rear |-> curr_cmd.rear_steering]

\* FourWheelSteeringController::update(time, period)
FourWheelSteeringController_update(time, period, sens, odom_free, tf_free) ==
  /\ variant = "B"
  /\ isRunning
  /\ IF ~cfg.open_loop_ /\ WheelReadingIsNan(sens, cfg.wheel_joints_size_)
     THEN updateAborted(time, sens)
     ELSE LET odo      == updateOdometry(sens, time, steering_pos_B(sens, joints))
              pub      == publish(time, odom_free, tf_free)
              read     == IF ~cfg.enable_twist_cmd_
                          THEN readFromRT(command_four_wheel_steering_)
                          ELSE readFromRT(command_)
              target   == brakeIfTimeout_B(read, time)
              curr_cmd == limitCommand(target, period)
              angular_speed == odo.odometry.angular
              steer    == steering_B(curr_cmd, odo.odometry)
              wheels2  == Len(joints.left_wheel) = 2 /\ Len(joints.right_wheel) = 2
              steers2  == Len(joints.left_steering) = 2 /\ Len(joints.right_steering) = 2
          IN /\ odometry_' = odo.odometry
             /\ last_state_publish_time_' = pub.last_state_publish_time_
             /\ last1_cmd_' = last0_cmd_
             /\ last0_cmd_' = curr_cmd
             /\ joints' =
                  [left_wheel |->
                     IF wheels2 THEN <<vel_left_front(curr_cmd, angular_speed),
                                       vel_left_rear(curr_cmd, angular_speed)>>
                     ELSE joints.left_wheel,
                   right_wheel |->
                     IF wheels2 THEN <<vel_right_front(curr_cmd, angular_speed),
                                       vel_right_rear(curr_cmd, angular_speed)>>
                     ELSE joints.right_wheel,
                   left_steering |->
                     IF steers2 THEN <<steer.front, steer.rear>> ELSE joints.left_steering,
                   right_steering |->
                     IF steers2 THEN <<steer.front, steer.rear>> ELSE joints.right_steering]
             /\ trace' = CycleTrace(time, period, sens,
                                     [odom_free |-> odom_free, tf_free |-> tf_free],
                                     odo, pub, read, target,
                                     (IF wheels2 THEN {"left_wheel", "right_wheel"}
                                      ELSE {}) \cup
                                     (IF steers2 THEN {"left_steering", "right_steering"}
                                      ELSE {}))
             /\ rt_time' = time
             /\ prov' = [prov EXCEPT !.aborted = FALSE, !.fresh = FALSE]
             /\ UNCHANGED <<variant, state_, now, cfg, buffers, staging, cb,
                            claimed_resources>>

(* --------------------------- the environment ---------------------------- *)
Names(n) == [type |-> "array", elems |-> [i \in 1..n |-> "string"]]
MissingNames == [type |-> "missing", elems |-> << >>]

\* an acceleration limit of half a unit per tick and tick
AccLimits ==
  [NoLimits EXCEPT !.has_acceleration_limits = TRUE,
                   !.min_acceleration = Q(-1, 2), !.max_acceleration = Q(1, 2)]

NoUrdf ==
  [present |-> FALSE, left_joint |-> FALSE, right_joint |-> FALSE,
   separation |-> Zero,
   left_link |-> [exists |-> FALSE, collision |-> FALSE, geometry |-> FALSE,
                  cylinder |-> FALSE, radius |-> Zero]]

\* an array parameter of n doubles
Doubles(n) == [type |-> "array", elems |-> [i \in 1..n |-> "double"]]

\* a complete parameter server for variant v
GoodEnv(v, open_loop, twist, limits) ==
  [pos_hw |-> TRUE, vel_hw |-> TRUE, hw_joints |-> TRUE, hw_command |-> Int2Q(3),
   left_wheel |-> Names(2), right_wheel |-> Names(2),
   left_steering |-> IF v = "A" THEN Names(1) ELSE Names(2),
   right_steering |-> IF v = "A" THEN Names(1) ELSE Names(2),
   publish_period |-> 1, open_loop |-> open_loop,
   wheel_separation_multiplier |-> IF open_loop THEN Absent ELSE Int2Q(2),
   wheel_radius_multiplier |-> IF open_loop THEN Absent ELSE Q(1, 2),
   velocity_rolling_window_size |-> 1,
   cmd_vel_timeout |-> 1, enable_odom_tf |-> ~open_loop, enable_twist_cmd |-> twist,
   limiter_lin |-> limits, limiter_ang |-> NoLimits,
   wheel_separation |-> IF v = "A" /\ ~open_loop THEN Q(1, 4) ELSE Q(1, 2),
   wheel_radius |-> IF v = "A" /\ ~open_loop THEN Q(1, 5) ELSE Q(1, 10),
   wheel_base |-> Int2Q(1),
   pose_covariance_diagonal |-> Doubles(6), twist_covariance_diagonal |-> Doubles(6),
   urdf |-> NoUrdf]

\* the parameter servers the controller is initialised from: closed loop
\* without limits, open loop with an acceleration limit and without the
\* transform (Variant B then in twist mode and in direct-axle mode), and
\* three that make init() fail
Envs(v) ==
  {GoodEnv(v, FALSE, FALSE, NoLimits), GoodEnv(v, TRUE, v = "B", AccLimits)}
  \cup (IF v = "B" THEN {GoodEnv(v, TRUE, FALSE, AccLimits)} ELSE {})
  \cup {[GoodEnv(v, FALSE, FALSE, NoLimits) EXCEPT !.right_wheel = Names(1)],
        [GoodEnv(v, FALSE, FALSE, NoLimits) EXCEPT !.left_steering = MissingNames],
        [GoodEnv(v, FALSE, FALSE, NoLimits) EXCEPT !.pos_hw = FALSE]}

(* --------------------------- the specification -------------------------- *)
Init ==
  /\ variant \in {"A", "B"}
  /\ state_ = "CONSTRUCTED"
  /\ now = 0
  /\ cfg = ConstructedCfg
  /\ command_ = DefaultCommands
  /\ command_four_wheel_steering_ = DefaultCommands
  /\ command_struct_ = DefaultCommands
  /\ command_struct_four_wheel_steering_ = DefaultCommands
  /\ cb = Idle
  /\ last0_cmd_ = DefaultCommands
  /\ last1_cmd_ = DefaultCommands
  /\ joints = ConstructedJoints
  /\ last_state_publish_time_ = 0
  /\ odometry_ = OdometryConstructed
  /\ claimed_resources = NoClaims(variant)
  /\ rt_time = 0
  /\ prov = [count |-> 0, latest |-> DefaultCommands, aborted |-> FALSE, fresh |-> FALSE]
  /\ trace = NoTrace

\* The controller manager requests the initialisation when it loads the
\* controller, before the real-time loop first starts it; SpecInit below
\* makes the request in every lifecycle state.
Next ==
  \/ state_ \in {"CONSTRUCTED", "INITIALIZED"} /\ \E env \in Envs(variant) : initRequest(env)
  \/ \E time \in TimeArgs : starting(time)
  \/ \E time \in TimeArgs : stopping(time)
  \/ Tick
  \/ \E command \in TwistMsgs : cmdVelCallback(command)
  \/ cmdVelCallback_write
  \/ \E command \in FourWheelSteeringMsgs : cmdFourWheelSteeringCallback(command)
  \/ cmdFourWheelSteeringCallback_write
  \/ \E time \in CycleTimes : \E sens \in Readings, sink \in Sinks(time) :
       AckermannController_update(time, Period(time), sens, sink.odom_free, sink.tf_free)
  \/ \E time \in CycleTimes : \E sens \in Readings, sink \in Sinks(time) :
       FourWheelSteeringController_update(time, Period(time), sens, sink.odom_free,
                                          sink.tf_free)

Spec == Init /\ [][Next]_vars

(* ------------------ the specification of initialisation ----------------- *)
\* what a joint name parameter can hold
NameParams ==
  {MissingNames, Names(0), Names(1), Names(2), Names(3),
   [type |-> "array", elems |-> <<"string", "int">>],
   [type |-> "string", elems |-> << >>],
   [type |-> "other", elems |-> << >>]}

\* a robot description with both first wheel joints and a cylindrical wheel
GoodUrdf ==
  [present |-> TRUE, left_joint |-> TRUE, right_joint |-> TRUE,
   separation |-> Q(1, 2),
   left_link |-> [exists |-> TRUE, collision |-> TRUE, geometry |-> TRUE,
                  cylinder |-> TRUE, radius |-> Q(1, 10)]]

\* the robot descriptions: none, a good one, and good ones but for a missing
\* wheel joint, a missing wheel link or a wheel that is no cylinder
Urdfs ==
  {NoUrdf, GoodUrdf, [GoodUrdf EXCEPT !.right_joint = FALSE],
   [GoodUrdf EXCEPT !.left_joint = FALSE],
   [GoodUrdf EXCEPT !.left_link.exists = FALSE],
   [GoodUrdf EXCEPT !.left_link.cylinder = FALSE]}

\* the parameter servers and hardware of the initialisation runs: every pair
\* of wheel name parameters, every pair of steering name parameters, every
\* choice of given and absent geometry parameters with every description,
\* hardware that lacks an interface or the named joints, and covariance
\* parameters that are missing, too short or not made of doubles
InitEnvs(v) ==
  LET good == GoodEnv(v, FALSE, FALSE, NoLimits)
  IN {[good EXCEPT !.left_wheel = l, !.right_wheel = r] : l \in NameParams, r \in NameParams}
     \cup {[good EXCEPT !.left_steering = l, !.right_steering = r] :
             l \in NameParams, r \in NameParams}
     \cup {[good EXCEPT !.wheel_separation = sp, !.wheel_radius = rd,
                        !.wheel_base = wb, !.urdf = u] :
             sp \in {good.wheel_separation, Absent}, rd \in {good.wheel_radius, Absent},
             wb \in {good.wheel_base, Absent}, u \in Urdfs}
     \cup {[good EXCEPT !.pos_hw = FALSE], [good EXCEPT !.vel_hw = FALSE],
           [good EXCEPT !.hw_joints = FALSE]}
     \cup {[good EXCEPT !.pose_covariance_diagonal = MissingNames],
           [good EXCEPT !.twist_covariance_diagonal = Doubles(5)],
           [good EXCEPT !.twist_covariance_diagonal = Names(6), !.hw_joints = FALSE]}

\* initialisation and the lifecycle at one instant of the clock
NextInit ==
  \/ \E env \in InitEnvs(variant) : initRequest(env)
  \/ \E time \in TimeArgs : starting(time)
  \/ \E time \in TimeArgs : stopping(time)

SpecInit == Init /\ [][NextInit]_vars

(* ------------- the specification of a cycle on any command -------------- *)
\* the stamps a buffered command can carry when the real-time loop has taken
\* the time of its cycle: the callback reads the clock on its own thread, also
\* after the loop did
Stamps == 0..(MaxTime + 1)

\* the commands the callback of the subscribed topic can have buffered
BufferedCommands(subscribed) ==
  IF subscribed = "cmd_vel"
  THEN {Commands(m.linear_x, m.angular_z, Zero, Zero, stamp) :
          m \in TwistMsgs, stamp \in Stamps}
  ELSE {Commands(m.speed, Zero, m.front_steering_angle, m.rear_steering_angle, stamp) :
          m \in FourWheelSteeringMsgs, stamp \in Stamps}

\* the controller initialised from a complete parameter server and started
\* one period ago, with a command in the buffer it subscribed
InitRunning ==
  /\ variant \in {"A", "B"}
  /\ now \in 1..MaxTime
  /\ rt_time = now - 1
  /\ \E env \in Envs(variant) :
       \E r \in init(variant, env, ConstructedCfg, ConstructedJoints, OdometryConstructed) :
         /\ env.pos_hw /\ env.vel_hw /\ r.res = "true"
         /\ cfg = r.cfg
         /\ joints = brake(r.cfg, r.joints)
         /\ odometry_ = Odometry_init(r.odometry, now - 1)
         /\ claimed_resources = Claims(variant, r.cfg)
         /\ \E c \in BufferedCommands(r.cfg.subscribed) :
              /\ command_ = IF r.cfg.subscribed = "cmd_vel" THEN c ELSE DefaultCommands
              /\ command_four_wheel_steering_ =
                   IF r.cfg.subscribed = "cmd_vel" THEN DefaultCommands ELSE c
              /\ prov = [count |-> 1, latest |-> c, aborted |-> FALSE, fresh |-> TRUE]
  /\ command_struct_ = command_
  /\ command_struct_four_wheel_steering_ = command_four_wheel_steering_
  /\ state_ = "RUNNING"
  /\ cb = Idle
  /\ last0_cmd_ = DefaultCommands
  /\ last1_cmd_ = DefaultCommands
  /\ last_state_publish_time_ = now - 1
  /\ trace = [op |-> "starting", time |-> now - 1, braked |-> TRUE]

\* the cycles of the real-time loop
NextCycle ==
  \/ Tick
  \/ \E time \in CycleTimes : \E sens \in Readings, sink \in Sinks(time) :
       AckermannController_update(time, Period(time), sens, sink.odom_free, sink.tf_free)
  \/ \E time \in CycleTimes : \E sens \in Readings, sink \in Sinks(time) :
       FourWheelSteeringController_update(time, Period(time), sens, sink.odom_free,
                                          sink.tf_free)

SpecCycle == InitRunning /\ [][NextCycle]_vars
(* ------------------------------ properties ------------------------------ *)
CompletedCycle == trace.op = "update" /\ trace.completed
AbortedCycle == trace.op = "update" /\ ~trace.completed

\* the command the completed cycle read was older than cmd_vel_timeout_
StaleCycle == CompletedCycle /\ trace.time - trace.read.stamp > cfg.cmd_vel_timeout_

RECURSIVE AllZeroSeq(_)
AllZeroSeq(v) == v = << >> \/ (IsZero(Head(v)) /\ AllZeroSeq(Tail(v)))

AllZero(j) ==
  /\ AllZeroSeq(j.left_wheel) /\ AllZeroSeq(j.right_wheel)
  /\ AllZeroSeq(j.left_steering) /\ AllZeroSeq(j.right_steering)

DirectAxle == variant = "B" /\ ~cfg.enable_twist_cmd_

NoLimiterEnabled(L) ==
  ~L.has_velocity_limits /\ ~L.has_acceleration_limits /\ ~L.has_jerk_limits

\* C1: a completed cycle whose command is older than cmd_vel_timeout_ hands
\* lin = 0 and ang = 0 on to the limiter whatever the buffered command
\* carried (and keeps them 0 when no limit is enabled); in Variant B
\* direct-axle mode it also writes 0 to the four steering setpoints.
C1_StaleCommandYieldsZero ==
  StaleCycle =>
    /\ IsZero(trace.target.lin) /\ IsZero(trace.target.ang)
    /\ NoLimiterEnabled(cfg.limiter_lin_) => IsZero(last0_cmd_.lin)
    /\ NoLimiterEnabled(cfg.limiter_ang_) => IsZero(last0_cmd_.ang)
    /\ DirectAxle => /\ AllZeroSeq(joints.left_steering)
                     /\ AllZeroSeq(joints.right_steering)

\* a direct-axle cycle found a command stale that carried speed and steering
C1_Witness ==
  /\ StaleCycle /\ DirectAxle
  /\ ~IsZero(trace.read.lin) /\ ~IsZero(trace.read.front_steering)
  /\ AllZeroSeq(joints.left_steering)

\* C2: in closed loop a cycle with a NaN wheel position or velocity reading
\* leaves every setpoint and the odometry state as they were, and a cycle
\* with valid wheel readings (also right after an aborted one) runs odometry
\* update and completes.
C2_NanWheelReadingAborts ==
  [][trace'.op = "update" /\ ~cfg.open_loop_ =>
       IF trace'.wheel_nan
       THEN ~trace'.completed /\ joints' = joints /\ odometry_' = odometry_
       ELSE trace'.completed /\ trace'.odom_call = "update"]_vars

\* a cycle with valid readings completed right after an aborted cycle
C2_Witness ==
  /\ CompletedCycle /\ trace.after_abort /\ ~cfg.open_loop_
  /\ trace.odom_call = "update" /\ odometry_.timestamp = trace.time
  /\ ~AllZeroSeq(joints.left_wheel)

\* C3: in closed loop a cycle with a NaN steering position reading is aborted
\* like one with a NaN wheel reading: no odometry update, no setpoint written.
C3_NanSteeringReadingAborts ==
  [][trace'.op = "update" /\ ~cfg.open_loop_ /\ trace'.steer_nan =>
       ~trace'.completed /\ joints' = joints /\ odometry_' = odometry_]_vars

\* C4: the command a cycle reads is, in all its fields, the command of the
\* latest ingestion call that had completed its write before the read (the
\* default command when there was none), whatever the callback in progress
\* has put into its staging struct.
C4_ReadIsLatestCompleteCommand ==
  CompletedCycle => trace.read = prov.latest

\* a cycle read the first command while the second ingestion was under way
C4_Witness ==
  /\ CompletedCycle /\ cb.pc = "write" /\ prov.count = 2
  /\ trace.read = prov.latest /\ trace.read.stamp # 0
  /\ cb.msg # trace.read

\* C5: an ingestion call made while the controller is not running changes
\* neither the command buffers, the staging structs, the limiter history,
\* the odometry state nor a setpoint, and is over at once.
C5_IngestionWhileNotRunning ==
  [][trace'.op \in {"cmdVelCallback", "cmdFourWheelSteeringCallback"} /\ ~isRunning =>
       /\ UNCHANGED <<buffers, staging, last0_cmd_, last1_cmd_, odometry_, joints>>
       /\ cb'.pc = "idle"]_vars

\* a call was rejected while a command was buffered
C5_Witness ==
  /\ trace.op \in {"cmdVelCallback", "cmdFourWheelSteeringCallback"}
  /\ ~trace.accepted /\ state_ = "STOPPED"
  /\ <<command_, command_four_wheel_steering_>> # <<DefaultCommands, DefaultCommands>>

IngestionOps ==
  {"cmdVelCallback", "cmdVelCallback_write",
   "cmdFourWheelSteeringCallback", "cmdFourWheelSteeringCallback_write"}

RealTimeOps == {"update", "starting", "stopping"}

\* C6: a step of an ingestion callback changes nothing but the staging
\* structs and the command buffers, and update(), starting() and stopping()
\* never change a command buffer or a staging struct.
C6_OnlyTheBufferIsShared ==
  [][/\ trace'.op \in IngestionOps => UNCHANGED <<rt_state, state_, cfg>>
     /\ trace'.op \in RealTimeOps => UNCHANGED <<buffers, staging>>]_vars

\* a command was buffered and then the controller was restarted
C6_Witness ==
  /\ trace.op = "starting"
  /\ <<command_, command_four_wheel_steering_>> # <<DefaultCommands, DefaultCommands>>

\* C7: as long as no ingestion call was accepted, a cycle reads the default
\* command (all values 0, stamp 0) and works from zero lin, ang and steering.
C7_DefaultCommandBeforeAnyIngestion ==
  CompletedCycle /\ prov.count = 0 =>
    /\ trace.read = Commands(Zero, Zero, Zero, Zero, 0)
    /\ trace.target = Commands(Zero, Zero, Zero, Zero, 0)

\* a cycle later than cmd_vel_timeout_ ran before any ingestion
C7_Witness ==
  /\ CompletedCycle /\ prov.count = 0 /\ trace.time > cfg.cmd_vel_timeout_
  /\ trace.read.stamp = 0

\* C8: right after starting(time) every wheel and steering setpoint is 0,
\* last_state_publish_time_ is time and the odometry has been initialised
\* at time.
C8_StartingBrakesAndInitialises ==
  trace.op = "starting" =>
    /\ AllZero(joints)
    /\ last_state_publish_time_ = trace.time
    /\ odometry_.initialised /\ odometry_.timestamp = trace.time
    /\ IsZero(odometry_.heading)

\* starting() at a time after 0 found a non-zero command on a handle
C8_Witness ==
  /\ trace.op = "starting" /\ trace.braked /\ trace.time > 0
  /\ AllZero(joints) /\ Len(joints.left_wheel) > 0

\* a setpoint that the step changed to a non-zero value
SetNonZero(old, new) ==
  \E i \in 1..Len(new) : ~IsZero(new[i]) /\ (i > Len(old) \/ old[i] # new[i])

\* C9: whenever the controller is stopped all setpoints are 0, and no
\* operation of the running controller other than update() gives a setpoint a
\* non-zero value.
C9_StoppedMeansZeroSetpoints ==
  [][/\ state_' = "STOPPED" => AllZero(joints')
     /\ (\/ SetNonZero(joints.left_wheel, joints'.left_wheel)
         \/ SetNonZero(joints.right_wheel, joints'.right_wheel)
         \/ SetNonZero(joints.left_steering, joints'.left_steering)
         \/ SetNonZero(joints.right_steering, joints'.right_steering))
        => (trace'.op = "update" /\ isRunning) \/ trace'.op = "initRequest"]_vars

\* stopping() braked wheels that were turning
C9_Witness ==
  /\ trace.op = "stopping" /\ trace.braked /\ state_ = "STOPPED"
  /\ ~IsZero(last0_cmd_.lin) /\ AllZero(joints)

ws_A == RMul(cfg.wheel_separation_multiplier_, cfg.wheel_separation_)
wr_A == RMul(cfg.wheel_radius_multiplier_, cfg.wheel_radius_)

\* C10: Variant A: after a completed cycle every left wheel setpoint is
\* (lin - ang*ws/2)/wr and every right one (lin + ang*ws/2)/wr for the
\* post-limit lin and ang, ws and wr being the multiplied separation and
\* radius; with ws = 1/2 and wr = 1/10: lin = 1, ang = 0 gives 10 and 10,
\* lin = 0, ang = 2 gives -5 and 5.
C10_AckermannWheelVelocities ==
  CompletedCycle /\ variant = "A" =>
    LET lin == last0_cmd_.lin
        ang == last0_cmd_.ang
        l == RDiv(RSub(lin, RDiv(RMul(ang, ws_A), Int2Q(2))), wr_A)
        r == RDiv(RAdd(lin, RDiv(RMul(ang, ws_A), Int2Q(2))), wr_A)
    IN /\ Len(joints.left_wheel) = cfg.wheel_joints_size_
       /\ Len(joints.right_wheel) = cfg.wheel_joints_size_
       /\ \A i \in 1..cfg.wheel_joints_size_ :
            joints.left_wheel[i] = l /\ joints.right_wheel[i] = r
       /\ ws_A = Q(1, 2) /\ wr_A = Q(1, 10) /\ lin = Int2Q(1) /\ IsZero(ang)
            => l = Int2Q(10) /\ r = Int2Q(10)
       /\ ws_A = Q(1, 2) /\ wr_A = Q(1, 10) /\ IsZero(lin) /\ ang = Int2Q(2)
            => l = Int2Q(-5) /\ r = Int2Q(5)

\* a cycle of Variant A with multipliers 2 and 1/2 turned on the spot
C10_Witness ==
  /\ CompletedCycle /\ variant = "A"
  /\ cfg.wheel_separation_multiplier_ = Int2Q(2) /\ cfg.wheel_radius_multiplier_ = Q(1, 2)
  /\ IsZero(last0_cmd_.lin) /\ last0_cmd_.ang = Int2Q(2)
  /\ joints.left_wheel = <<Int2Q(-5), Int2Q(-5)>>
  /\ joints.right_wheel = <<Int2Q(5), Int2Q(5)>>

\* C11: Variant B: after a completed cycle in which the odometry's angular
\* speed is 0, the front and the rear wheel setpoint of a side are equal,
\* whatever the sign of the post-limit lin.
C11_FrontEqualsRearWhenStraight ==
  CompletedCycle /\ variant = "B" /\ IsZero(odometry_.angular) =>
    /\ Len(joints.left_wheel) = 2 /\ Len(joints.right_wheel) = 2
    /\ joints.left_wheel[1] = joints.left_wheel[2]
    /\ joints.right_wheel[1] = joints.right_wheel[2]

\* a straight cycle of Variant B drove backwards
C11_Witness ==
  /\ CompletedCycle /\ variant = "B" /\ IsZero(odometry_.angular)
  /\ RLt(last0_cmd_.lin, Zero)
  /\ RLt(joints.left_wheel[1], Zero) /\ joints.left_wheel[1] = joints.left_wheel[2]

\* C12: Variant B in twist-input mode: after a completed cycle the steering
\* setpoints are 0 when the magnitude of the odometry's linear estimate is
\* not above 0.01 (no quotient by the estimate is formed: it would not be 0
\* for an estimate of 0), and otherwise the front ones are
\* atan(ang*wheel_base/estimate)/2 for the post-limit ang and the rear ones
\* their negation.
C12_TwistSteering ==
  CompletedCycle /\ variant = "B" /\ cfg.enable_twist_cmd_ =>
    IF RGt(RAbs(odometry_.linear), Q(1, 100))
    THEN LET front == HalfAtan(RDiv(RMul(last0_cmd_.ang, cfg.wheel_base_),
                                    odometry_.linear))
         IN /\ joints.left_steering = <<front, RNeg(front)>>
            /\ joints.right_steering = <<front, RNeg(front)>>
    ELSE /\ joints.left_steering = <<Zero, Zero>>
         /\ joints.right_steering = <<Zero, Zero>>

\* a twist cycle steered by a non-zero angle
C12_Witness ==
  /\ CompletedCycle /\ variant = "B" /\ cfg.enable_twist_cmd_
  /\ RGt(RAbs(odometry_.linear), Q(1, 100)) /\ ~IsZero(last0_cmd_.ang)
  /\ joints.left_steering[1].k = "hatan"
  /\ joints.left_steering[2] = RNeg(joints.left_steering[1])

\* C13: Variant B in direct-axle mode: after a completed cycle whose command
\* was not stale the front steering setpoints are the front_steering and
\* the rear ones the rear_steering of the command read, whatever the
\* limiters do to lin and ang.
C13_DirectAxlePassThrough ==
  CompletedCycle /\ DirectAxle /\ ~StaleCycle =>
    /\ joints.left_steering = <<trace.read.front_steering, trace.read.rear_steering>>
    /\ joints.right_steering = <<trace.read.front_steering, trace.read.rear_steering>>

\* a direct-axle cycle whose lin the limiter cut passed the steering through
C13_Witness ==
  /\ CompletedCycle /\ DirectAxle /\ ~StaleCycle
  /\ cfg.limiter_lin_.has_acceleration_limits /\ last0_cmd_.lin # trace.read.lin
  /\ ~IsZero(trace.read.front_steering)
  /\ joints.left_steering = <<trace.read.front_steering, trace.read.rear_steering>>

\* the step is a call of update()
UpdateStep == trace'.op = "update" /\ rt_time' # rt_time

\* C19: a cycle in which a snapshot is due and the lock of the odometry sink
\* or of the transform sink is held emits no snapshot to that sink, and still
\* reads the buffered command, limits it and writes the wheel setpoints of
\* the limited command.
C19_BusySinkSkipsOnlyTheSnapshot ==
  [][UpdateStep /\ trace'.completed /\ trace'.due
       /\ (~trace'.odom_free \/ ~trace'.tf_free) =>
       /\ ~trace'.odom_free => ~trace'.odom_pub
       /\ ~trace'.tf_free => ~trace'.tf_pub
       /\ trace'.read = IF cfg.subscribed = "cmd_vel" THEN command_
                        ELSE command_four_wheel_steering_
       /\ last0_cmd_' = limitCommand(trace'.target, trace'.period)
       /\ last1_cmd_' = last0_cmd_
       /\ IF variant = "A"
          THEN /\ \A i \in 1..cfg.wheel_joints_size_ :
                    /\ joints'.left_wheel[i] = vel_left_A(last0_cmd_')
                    /\ joints'.right_wheel[i] = vel_right_A(last0_cmd_')
          ELSE /\ joints'.left_wheel =
                    <<vel_left_front(last0_cmd_', odometry_'.angular),
                      vel_left_rear(last0_cmd_', odometry_'.angular)>>
               /\ joints'.right_wheel =
                    <<vel_right_front(last0_cmd_', odometry_'.angular),
                      vel_right_rear(last0_cmd_', odometry_'.angular)>>]_vars

\* a cycle found the odometry sink held, sent the transform and drove
C19_Witness ==
  /\ CompletedCycle /\ trace.due /\ ~trace.odom_free /\ ~trace.odom_pub /\ trace.tf_pub
  /\ ~IsZero(trace.read.lin) /\ ~IsZero(last0_cmd_.lin)
  /\ ~IsZero(joints.left_wheel[1])

\* C20: a cycle emits an odometry snapshot only if last_state_publish_time_ +
\* publish_period_ < time, a transform snapshot only if moreover
\* enable_odom_tf_ is set; a due cycle advances last_state_publish_time_ by
\* publish_period_ whether a sink is held or not, any other leaves it, and it
\* never exceeds the cycle's time.
C20_PublicationIsRateLimited ==
  [][UpdateStep /\ trace'.completed =>
       LET due == last_state_publish_time_ + cfg.publish_period_ < trace'.time
       IN /\ trace'.due = due
          /\ trace'.odom_pub => due
          /\ trace'.tf_pub => due /\ cfg.enable_odom_tf_
          /\ last_state_publish_time_' =
               IF due THEN last_state_publish_time_ + cfg.publish_period_
               ELSE last_state_publish_time_
          /\ last_state_publish_time_' <= trace'.time]_vars

\* a due cycle with the transform disabled sent the odometry snapshot only
C20_Witness ==
  /\ CompletedCycle /\ trace.due /\ trace.odom_pub /\ ~trace.tf_pub /\ trace.tf_free
  /\ ~cfg.enable_odom_tf_
  /\ last_state_publish_time_ < trace.time

(* ------------------- properties of the initialisation ------------------- *)
\* the last operation was initRequest, and it got as far as calling init()
InitCalled ==
  /\ trace.op = "initRequest"
  /\ trace.from = "CONSTRUCTED" /\ trace.env.pos_hw /\ trace.env.vel_hw

\* what a name parameter holds: the number of names in it, and whether it is
\* missing, empty or not made of strings
ListLen(param) == IF param.type = "string" THEN 1 ELSE Len(param.elems)

BadNames(param) ==
  \/ param.type \notin {"array", "string"}
  \/ param.type = "array" /\ param.elems = << >>
  \/ param.type = "array" /\ \E i \in 1..Len(param.elems) : param.elems[i] # "string"

Initialised == state_ \in {"INITIALIZED", "RUNNING", "STOPPED"}

\* C14: Variant B: init() returns false unless the left and the right wheel
\* lists hold two names each and the left and the right steering lists hold
\* two names each; once initialised, wheel_joints_size_ and
\* steering_joints_size_ are 2 and stay 2.
C14_TwoJointsBySide ==
  /\ InitCalled /\ variant = "B" /\ trace.res # "false" =>
       \A param \in {trace.env.left_wheel, trace.env.right_wheel,
                      trace.env.left_steering, trace.env.right_steering} :
          ~BadNames(param) /\ ListLen(param) = 2
  /\ Initialised /\ variant = "B" =>
       cfg.wheel_joints_size_ = 2 /\ cfg.steering_joints_size_ = 2

\* Variant B refused two wheel lists of three names each
C14_Witness ==
  /\ InitCalled /\ variant = "B" /\ trace.res = "false"
  /\ ~BadNames(trace.env.left_wheel) /\ ~BadNames(trace.env.right_wheel)
  /\ ListLen(trace.env.left_wheel) = 3 /\ ListLen(trace.env.right_wheel) = 3
  /\ state_ = "CONSTRUCTED"

\* C15: in both variants init() returns false when the left and right wheel
\* lists differ in length, when the left and right steering lists differ in
\* length, and when one of the four name parameters is missing, empty or not
\* a string or a list of strings.
C15_NameListsMustMatch ==
  InitCalled /\
  ( \/ \E param \in {trace.env.left_wheel, trace.env.right_wheel,
                      trace.env.left_steering, trace.env.right_steering} :
          BadNames(param)
    \/ ListLen(trace.env.left_wheel) # ListLen(trace.env.right_wheel)
    \/ ListLen(trace.env.left_steering) # ListLen(trace.env.right_steering) )
  => trace.res = "false"

\* Variant A refused well-formed steering lists of different lengths
C15_Witness ==
  /\ InitCalled /\ variant = "A" /\ trace.res = "false"
  /\ ~BadNames(trace.env.left_steering) /\ ~BadNames(trace.env.right_steering)
  /\ ListLen(trace.env.left_steering) # ListLen(trace.env.right_steering)
  /\ ~BadNames(trace.env.left_wheel) /\ ~BadNames(trace.env.right_wheel)
  /\ ListLen(trace.env.left_wheel) = ListLen(trace.env.right_wheel)

\* a geometry value the robot description can supply
SeparationInUrdf(urdf) == urdf.present /\ urdf.left_joint /\ urdf.right_joint

RadiusInUrdf(urdf) ==
  /\ urdf.present /\ urdf.left_joint
  /\ urdf.left_link.exists /\ urdf.left_link.collision
  /\ urdf.left_link.geometry /\ urdf.left_link.cylinder

\* C16: Variant B: init() does not succeed when wheel_separation or
\* wheel_radius is neither a parameter nor in the robot description, or when
\* wheel_base is not a parameter.
C16_GeometryMustResolve ==
  InitCalled /\ variant = "B" /\
  ( \/ trace.env.wheel_separation = Absent /\ ~SeparationInUrdf(trace.env.urdf)
    \/ trace.env.wheel_radius = Absent /\ ~RadiusInUrdf(trace.env.urdf)
    \/ trace.env.wheel_base = Absent )
  => trace.res # "true"

\* C17: initRequest returns true and moves to INITIALIZED only when called in
\* CONSTRUCTED with both interfaces present, and every other call returns
\* false, leaves the lifecycle state and does not modify claimed_resources.
C17_FailureReturnsFalse ==
  trace.op = "initRequest" =>
    /\ trace.res = "true" =>
         /\ trace.from = "CONSTRUCTED" /\ trace.env.pos_hw /\ trace.env.vel_hw
         /\ state_ = "INITIALIZED"
    /\ trace.res # "true" =>
         /\ trace.res = "false"
         /\ state_ = trace.from /\ claimed_resources = trace.claimed

\* the joints named by the steering and by the wheel parameters
SteeringJoints ==
  {<<"left_steering", i>> : i \in 1..cfg.steering_joints_size_} \cup
  {<<"right_steering", i>> : i \in 1..cfg.steering_joints_size_}

WheelJoints ==
  {<<"left_wheel", i>> : i \in 1..cfg.wheel_joints_size_} \cup
  {<<"right_wheel", i>> : i \in 1..cfg.wheel_joints_size_}

\* C18: in both variants an initialised controller holds its wheel handles
\* from the velocity interface and its steering handles from the position
\* interface, so that the claims are the steering joints on the position
\* interface and the wheel joints on the velocity interface (Variant B hands
\* its caller the joints of both interfaces in one set).
C18_HandlesFromTheirInterfaces ==
  Initialised =>
    /\ cfg.wheel_iface = "velocity" /\ cfg.steering_iface = "position"
    /\ claimed_resources = IF variant = "A" THEN <<SteeringJoints, WheelJoints>>
                           ELSE SteeringJoints \cup WheelJoints

(* ------------------------ properties of the cycle ----------------------- *)
\* C21: every completed cycle, of Variant A as of Variant B, writes a
\* setpoint to the wheel handles and to the steering handles of both sides.
C21_EveryCycleWritesWheelsAndSteering ==
  CompletedCycle =>
    trace.written = {"left_wheel", "right_wheel", "left_steering", "right_steering"}

\* the step is an update() that ran to its end
CompletedStep == UpdateStep /\ trace'.completed

\* C22: a completed cycle leaves in last0_cmd_ its command after the limiters,
\* which were called with the last0_cmd_ and last1_cmd_ values of before and
\* with the control period as dt, and in last1_cmd_ the last0_cmd_ of before;
\* no other step changes the two, so that they are the accepted values of the
\* last two completed cycles.
C22_LimiterHistory ==
  [][/\ CompletedStep =>
          /\ last0_cmd_' =
               [trace'.target EXCEPT
                  !.lin = limit(cfg.limiter_lin_, trace'.target.lin,
                                last0_cmd_.lin, last1_cmd_.lin, trace'.period),
                  !.ang = limit(cfg.limiter_ang_, trace'.target.ang,
                                last0_cmd_.ang, last1_cmd_.ang, trace'.period)]
          /\ last1_cmd_' = last0_cmd_
     /\ ~CompletedStep => UNCHANGED <<last0_cmd_, last1_cmd_>>]_vars

\* two cycles raised lin by the acceleration limit each, the second on a
\* command whose age is not the period
C22_Witness ==
  /\ CompletedCycle /\ cfg.limiter_lin_.has_acceleration_limits
  /\ trace.time - trace.read.stamp # trace.period
  /\ trace.target.lin = Int2Q(1)
  /\ last1_cmd_.lin = Q(1, 2) /\ last0_cmd_.lin = Int2Q(1)

\* C23: with no limit enabled on lin and ang, a completed cycle whose command
\* is stale writes 0 to every wheel setpoint, in both variants and whatever
\* the odometry's velocity estimates are.
C23_StaleWithoutLimiterStopsWheels ==
  StaleCycle /\ NoLimiterEnabled(cfg.limiter_lin_) /\ NoLimiterEnabled(cfg.limiter_ang_) =>
    AllZeroSeq(joints.left_wheel) /\ AllZeroSeq(joints.right_wheel)

\* values to vary ang, front_steering and rear_steering of a command over
OtherValues == {Int2Q(2), Q(-1, 4)}

\* C24: Variant B: the four wheel setpoints of a completed cycle are those of
\* every command that has the cycle's post-limit lin, whatever its ang,
\* front_steering and rear_steering, at the cycle's odometry angular speed and
\* geometry; so two cycles that agree on these write the same wheel setpoints.
C24_WheelsDependOnLinOnly ==
  CompletedCycle /\ variant = "B" =>
    \A a, f, r \in OtherValues :
      LET cmd == [last0_cmd_ EXCEPT !.ang = a, !.front_steering = f,
                                    !.rear_steering = r]
      IN /\ joints.left_wheel = <<vel_left_front(cmd, odometry_.angular),
                                  vel_left_rear(cmd, odometry_.angular)>>
         /\ joints.right_wheel = <<vel_right_front(cmd, odometry_.angular),
                                   vel_right_rear(cmd, odometry_.angular)>>

\* a turning vehicle got a command with speed and steering angles
C24_Witness ==
  /\ CompletedCycle /\ variant = "B"
  /\ ~IsZero(last0_cmd_.lin) /\ ~IsZero(last0_cmd_.front_steering)
  /\ ~IsZero(last0_cmd_.rear_steering)
  /\ IsQ(odometry_.angular) /\ ~IsZero(odometry_.angular)
  /\ joints.left_wheel[1] # joints.left_wheel[2]
  /\ joints.left_wheel[2] # joints.right_wheel[2]

\* C25: when wheel_radius is to be taken from the robot description and the
\* description lacks the left wheel joint or its child link, init() returns
\* false whether wheel_separation is looked up too or not, and the
\* controller does not fault.
C25_MissingWheelJointFailsInit ==
  InitCalled /\ trace.env.wheel_radius = Absent /\ trace.env.urdf.present
    /\ (~trace.env.urdf.left_joint \/ ~trace.env.urdf.left_link.exists)
  => trace.res = "false" /\ state_ # "FAULT"

\* the steering angles and the stamp of a command
Steering(c) == <<c.front_steering, c.rear_steering, c.stamp>>

\* C26: a completed cycle whose command has an age time - stamp of at most
\* cmd_vel_timeout_, also of exactly cmd_vel_timeout_ and also negative,
\* hands the command read to the limiters as it is; the limiters leave its
\* steering angles, and with no limit enabled its lin and ang as well.
C26_OnlyOlderCommandsAreBraked ==
  CompletedCycle /\ trace.time - trace.read.stamp <= cfg.cmd_vel_timeout_ =>
    /\ trace.target = trace.read
    /\ Steering(last0_cmd_) = Steering(trace.read)
    /\ NoLimiterEnabled(cfg.limiter_lin_) => last0_cmd_.lin = trace.read.lin
    /\ NoLimiterEnabled(cfg.limiter_ang_) => last0_cmd_.ang = trace.read.ang

\* a cycle took a command stamped after the cycle's time
C26_Witness ==
  /\ CompletedCycle /\ trace.read.stamp > trace.time
  /\ ~IsZero(trace.read.lin) /\ trace.target = trace.read
  /\ ~IsZero(last0_cmd_.lin)

\* the step is a call of starting(), of stopping()
StartingStep == trace'.op = "starting" /\ state_ # "RUNNING" /\ state_' = "RUNNING"
StoppingStep == trace'.op = "stopping" /\ state_ = "RUNNING" /\ state_' = "STOPPED"

\* C27: starting() changes nothing but the setpoints, last_state_publish_time_
\* and the odometry, stopping() nothing but the setpoints: the limiter history
\* and the command buffers stay.  The first cycle that completes after
\* starting(), with or without callbacks and aborted cycles in between, hence
\* reads the command that was buffered before, applies it unless it is older
\* than cmd_vel_timeout_, and limits it against the last0_cmd_ and last1_cmd_
\* of before the start.
C27_RestartKeepsHistoryAndBuffer ==
  [][/\ StartingStep =>
          UNCHANGED <<last0_cmd_, last1_cmd_, buffers, staging, cb, cfg,
                      claimed_resources>>
     /\ StoppingStep =>
          UNCHANGED <<last0_cmd_, last1_cmd_, buffers, staging, cb, cfg,
                      claimed_resources, odometry_>>
     /\ UpdateStep /\ trace'.completed /\ prov.fresh =>
          /\ trace'.read = IF cfg.subscribed = "cmd_vel" THEN command_
                           ELSE command_four_wheel_steering_
          /\ trace'.time - trace'.read.stamp <= cfg.cmd_vel_timeout_ =>
               trace'.target = trace'.read
          /\ last0_cmd_'.lin = limit(cfg.limiter_lin_, trace'.target.lin,
                                     last0_cmd_.lin, last1_cmd_.lin, trace'.period)
          /\ last0_cmd_'.ang = limit(cfg.limiter_ang_, trace'.target.ang,
                                     last0_cmd_.ang, last1_cmd_.ang, trace'.period)]_vars

\* the first cycle after a restart took the command a cycle before the stop
\* had accepted, and raised lin from the value accepted then
C27_Witness ==
  /\ CompletedCycle /\ trace.after_start
  /\ cfg.limiter_lin_.has_acceleration_limits
  /\ trace.read.stamp < trace.time /\ last1_cmd_.stamp = trace.read.stamp
  /\ trace.target = trace.read
  /\ last1_cmd_.lin = Q(1, 2) /\ last0_cmd_.lin = Int2Q(1)

\* the step is an update() that returned on a NaN wheel reading
AbortedStep == UpdateStep /\ ~trace'.completed

\* C28: a cycle aborted by a NaN wheel reading leaves last0_cmd_, last1_cmd_
\* and last_state_publish_time_ as they were, sends no odometry and no
\* transform snapshot and does not read the command buffer.
C28_AbortedCycleLeavesHistory ==
  [][AbortedStep =>
       /\ trace'.wheel_nan
       /\ UNCHANGED <<last0_cmd_, last1_cmd_, last_state_publish_time_>>
       /\ ~trace'.odom_pub /\ ~trace'.tf_pub /\ ~trace'.buffer_read]_vars

\* a cycle was aborted when a snapshot was due, after a cycle that had
\* accepted a command
C28_Witness ==
  /\ AbortedCycle /\ trace.wheel_nan
  /\ last_state_publish_time_ + cfg.publish_period_ < trace.time
  /\ ~IsZero(last0_cmd_.lin)
  /\ ~trace.odom_pub /\ ~trace.buffer_read
====
